---------------------------- MODULE Spec2Model ----------------------------
(***************************************************************************)
(* A model of the file-tree browser of groth00/prompts.                    *)
(*                                                                         *)
(*  - src/src/files.rs  : the tree the application uses (SlotMap arena,    *)
(*    a root entry, collect_visible, handle_notify).  Specification Spec.  *)
(*  - src/src/files2.rs : the earlier hash-map tree (no root entry,        *)
(*    visit / visit_root).  Specification Spec2.                           *)
(*                                                                         *)
(* Both trees work on one modelled filesystem, `disk`.  A path is the      *)
(* sequence of its components; an absolute path starts with the component  *)
(* "/" (which stands for the directory the tree is built on).              *)
(***************************************************************************)
EXTENDS Integers, Sequences, FiniteSets, TLC

(***************************************************************************)
(* Bounds of the model.                                                    *)
(***************************************************************************)
\* entry ids a tree may allocate (ids are never reused)
MaxIds == 7
\* ids of the files2 tree (next_id counter)
MaxIds2 == 6
\* length of the list of marked ids
MaxMarks == 2
\* calls of the tree in one behaviour, navigation apart
MaxSteps == 4
\* the same for the behaviours of marking and batch deletion (SpecBatch)
MaxBatchSteps == 5
\* the same for the behaviours of the files2 tree (Spec2), selection apart
MaxSteps2 == 3
\* the same for the behaviours of enter and create on both trees (SpecCreate)
MaxCreateSteps == 4
\* the same for the behaviours of enter and rename of the files2 tree
\* (SpecRename)
MaxRenameSteps == 4
\* entries of the long directory (SpecScroll) beyond the MAX_VISIBLE rows of
\* the window
MaxScroll == 2
\* the same for the behaviours of enter and delete(id) (SpecDelete)
MaxDeleteSteps == 3
\* the same for the behaviours in which the watched directory is removed
\* (SpecRootRemoved)
MaxRootSteps == 5
MaxRedeliverSteps == 5
MaxPairSteps == 5
MaxCollapseSteps == 1
\* filesystem notifications waiting in the watcher's channel
MaxQueue == 4
\* changes other processes make to the filesystem in one behaviour
MaxExternal == 1
\* enter calls in a row that the history counts
MaxStreak == 3

\* file names of the modelled directory subtree, in byte order
Names == {"a", "b"}

\* src/src/files.rs:11
MAX_VISIBLE == 40

NoId == -1
NoPath == <<"?">>

(***************************************************************************)
(* Paths (std::path::PathBuf).                                             *)
(***************************************************************************)
RootPath == <<"/">>

\* Component order: RootDir sorts before every Normal component, Normal
\* components by bytes.
Rank(c) == CASE c = "/" -> 0 [] c = "a" -> 1 [] c = "b" -> 2 [] OTHER -> 3

Min(S) == CHOOSE x \in S : \A y \in S : x <= y

\* Path::cmp: lexicographic over components.
PathCmp(p, q) ==
    LET n == IF Len(p) < Len(q) THEN Len(p) ELSE Len(q)
        diff == {i \in 1..n : p[i] # q[i]}
    IN  IF diff = {}
        THEN IF Len(p) < Len(q) THEN "Less"
             ELSE IF Len(p) > Len(q) THEN "Greater" ELSE "Equal"
        ELSE IF Rank(p[Min(diff)]) < Rank(q[Min(diff)]) THEN "Less" ELSE "Greater"

\* Path::parent: None (NoPath) for the empty path.
ParentPath(p) == IF Len(p) = 0 THEN NoPath ELSE SubSeq(p, 1, Len(p) - 1)

\* Path::file_name
FileName(p) == p[Len(p)]

\* Path::join of a one-component relative path
Join(dir, name) == Append(dir, name)

\* the paths of the modelled directory subtree: the root directory, its
\* entries and the entries of its sub-directories
DiskPaths ==
    {RootPath} \cup {<<"/", n>> : n \in Names}
               \cup {<<"/", n, m>> : n \in Names, m \in Names}

(***************************************************************************)
(* The filesystem: disk[p] is "Absent", "File" or "Folder".                *)
(***************************************************************************)
DiskOk(d) ==
    /\ d[RootPath] = "Folder"
    /\ \A p \in DiskPaths \ {RootPath} :
          d[p] # "Absent" => d[ParentPath(p)] = "Folder"
    \* the deepest level holds files only (the subtree is bounded)
    /\ \A p \in DiskPaths : Len(p) = 3 => d[p] # "Folder"

Exists(d, p) == p \in DiskPaths /\ d[p] # "Absent"

IsPrefix(p, q) == Len(p) <= Len(q) /\ SubSeq(q, 1, Len(p)) = p

\* fs::read_dir(p): the entries of directory p (empty when it cannot be read)
ReadDir(d, p) ==
    IF p \in DiskPaths /\ d[p] = "Folder"
    THEN {q \in DiskPaths : ParentPath(q) = p /\ d[q] # "Absent"}
    ELSE {}

\* the disk after p and everything below it is removed
RemoveTree(d, p) ==
    [q \in DiskPaths |-> IF IsPrefix(p, q) THEN "Absent" ELSE d[q]]


(***************************************************************************)
(* files.rs: the entry store.                                              *)
(*                                                                         *)
(* The operations are written as functions of a tree value t, a record of  *)
(* the FileTree fields plus the filesystem they act on:                    *)
(*   t.flag   "ok", or how the call ended abnormally: "panic" (an index of *)
(*            a removed key, an arithmetic underflow, a failed expect),    *)
(*            "over" (the model's id bound was hit) or "unspec" (a binary  *)
(*            search over a list that is not sorted);                      *)
(*   t.res    the value the call returns: "Ok" or the io::ErrorKind;       *)
(*   t.reads, t.renames   the read_dir and rename calls of the operation;  *)
(*   t.out    the notifications the watcher emits for what the call did to *)
(*            the watched directory.                                       *)
(***************************************************************************)
Entry(path, kind, parent, expanded) ==
    [path |-> path, kind |-> kind, parent |-> parent, children |-> <<>>,
     expanded |-> expanded, visited |-> FALSE, marked |-> FALSE]

VisibleEntry(id, depth) == [id |-> id, depth |-> depth]

Live(t, id) == id \in DOMAIN t.entries

Fail(t, how) == IF t.flag = "ok" THEN [t EXCEPT !.flag = how] ELSE t

InsertAt(s, pos, x) == SubSeq(s, 1, pos - 1) \o <<x>> \o SubSeq(s, pos, Len(s))

Retain(s, x) == SelectSeq(s, LAMBDA c : c # x)

\* the first index of visible holding id, 0 for None
Position(vis, id) ==
    IF \E i \in 1..Len(vis) : vis[i].id = id
    THEN Min({i \in 1..Len(vis) : vis[i].id = id})
    ELSE 0

cmp_entries(es, a, b) ==
    IF es[a].kind = "Folder" /\ es[b].kind = "File" THEN "Less"
    ELSE IF es[a].kind = "File" /\ es[b].kind = "Folder" THEN "Greater"
    ELSE PathCmp(es[a].path, es[b].path)

\* a <= b under the ordering policy
LeqEntries(es, a, b) == cmp_entries(es, a, b) # "Greater"

\* binary_search_by(..).unwrap_or_else(|e| e), then Vec::insert.  On a sorted
\* list the search returns the index of the equal element, or the insertion
\* point; on any other list its result is unspecified.
insert_sorted_child(t, parent, child) ==
    IF t.flag # "ok" THEN t
    ELSE IF ~Live(t, parent) \/ \E i \in 1..Len(t.entries[parent].children) :
                                   ~Live(t, t.entries[parent].children[i])
    THEN Fail(t, "panic")
    ELSE
    LET ch == t.entries[parent].children
        ord(i) == cmp_entries(t.entries, ch[i], child)
        eq == {i \in 1..Len(ch) : ord(i) = "Equal"}
        less == {i \in 1..Len(ch) : ord(i) = "Less"}
        partitioned ==
            \A i, j \in 1..Len(ch) :
                i < j => /\ (ord(j) = "Less" => ord(i) = "Less")
                         /\ (ord(i) = "Greater" => ord(j) = "Greater")
        pos == IF eq # {} THEN Min(eq) ELSE Cardinality(less) + 1
    IN  IF ~partitioned \/ Cardinality(eq) > 1 THEN Fail(t, "unspec")
        ELSE [t EXCEPT !.entries[parent].children = InsertAt(ch, pos, child)]

add(t, parent, path, kind) ==
    IF t.flag # "ok" \/ ~Live(t, parent) THEN t
    ELSE IF t.next_id >= MaxIds THEN Fail(t, "over")
    ELSE insert_sorted_child(
            [t EXCEPT !.entries = (t.next_id :> Entry(path, kind, parent, FALSE))
                                      @@ t.entries,
                      !.next_id = t.next_id + 1],
            parent, t.next_id)

\* FileTree::depth: the length of the parent chain; -1 when the chain reaches
\* a removed key (the index panics), -2 when it does not end
RECURSIVE DepthFrom(_, _, _)
DepthFrom(es, id, fuel) ==
    IF id \notin DOMAIN es THEN -1
    ELSE IF es[id].parent = NoId THEN 0
    ELSE IF fuel = 0 THEN -2
    ELSE LET d == DepthFrom(es, es[id].parent, fuel - 1)
         IN  IF d < 0 THEN d ELSE d + 1

depth(es, id) == DepthFrom(es, id, MaxIds)

RECURSIVE collect_visible(_, _)
RECURSIVE CollectChildren(_, _)
collect_visible(es, id) ==
    IF id \notin DOMAIN es THEN <<VisibleEntry(id, -1)>>
    ELSE <<VisibleEntry(id, depth(es, id))>> \o
         (IF es[id].kind = "Folder" /\ es[id].expanded
          THEN CollectChildren(es, es[id].children)
          ELSE <<>>)

CollectChildren(es, ch) ==
    IF ch = <<>> THEN <<>>
    ELSE collect_visible(es, Head(ch)) \o CollectChildren(es, Tail(ch))

visible_entries(es) == collect_visible(es, 0)

\* self.visible = self.visible_entries()
SetVisible(t) ==
    IF t.flag # "ok" THEN t
    ELSE LET v == visible_entries(t.entries)
         IN  IF \E i \in 1..Len(v) : v[i].depth < 0 THEN Fail(t, "panic")
             ELSE [t EXCEPT !.visible = v]

\* the entries read_dir yields, in path order.  The order read_dir yields
\* them in only decides which fresh key an entry gets: every child goes
\* through insert_sorted_child.
RECURSIVE SortPaths(_)
SortPaths(S) ==
    IF S = {} THEN <<>>
    ELSE LET m == CHOOSE p \in S : \A q \in S : PathCmp(p, q) # "Greater"
         IN  <<m>> \o SortPaths(S \ {m})

RECURSIVE AddAll(_, _, _)
AddAll(t, parent, paths) ==
    IF paths = <<>> THEN t
    ELSE AddAll(add(t, parent, Head(paths), t.disk[Head(paths)]), parent, Tail(paths))

\* the read_dir loop of new and enter
ReadChildren(t, id) ==
    AddAll([t EXCEPT !.reads = t.reads + 1], id,
           SortPaths(ReadDir(t.disk, t.entries[id].path)))

\* FileTree::new
new(d) ==
    SetVisible(ReadChildren(
        [entries |-> (0 :> Entry(RootPath, "Folder", NoId, TRUE)),
         selected |-> 0, visible |-> <<>>, view_offset |-> 0, temp |-> <<>>,
         next_id |-> 1, notify_modify |-> FALSE, modify_from |-> NoPath,
         disk |-> d, flag |-> "ok", res |-> "Ok", reads |-> 0, renames |-> 0,
         out |-> <<>>], 0))

\* enter without the lazy-load guard: the directory is read on every toggle
enter_always_reads(t) ==
    IF t.flag # "ok" THEN t
    ELSE IF ~Live(t, t.selected) THEN Fail(t, "panic")
    ELSE LET id == t.selected
             e == t.entries[id]
         IN  IF e.kind = "Folder"
             THEN SetVisible(ReadChildren(
                      [t EXCEPT !.entries[id].expanded = ~e.expanded,
                                !.entries[id].visited = TRUE,
                                !.entries[id].children = <<>>], id))
             ELSE t

\* FileTree::enter
enter(t) ==
    IF t.flag # "ok" THEN t
    ELSE IF ~Live(t, t.selected) THEN Fail(t, "panic")
    ELSE LET id == t.selected
             e == t.entries[id]
         IN  IF e.kind = "Folder"
             THEN LET t1 == [t EXCEPT !.entries[id].expanded = ~e.expanded,
                                      !.entries[id].visited = TRUE]
                  IN  SetVisible(IF e.visited THEN t1 ELSE ReadChildren(t1, id))
             ELSE t

\* reset_visible without its second enter: the folder is left unloaded
reset_visible_single_enter(t, id) ==
    LET t1 == enter([t EXCEPT !.selected = id])
    IN  IF t1.flag # "ok" THEN t1
        ELSE [t1 EXCEPT !.entries[id].visited = FALSE,
                        !.entries[id].children = <<>>]

\* FileTree::reset_visible
reset_visible(t, id) ==
    LET t1 == enter([t EXCEPT !.selected = id])
    IN  IF t1.flag # "ok" THEN t1
        ELSE enter([t1 EXCEPT !.entries[id].visited = FALSE,
                              !.entries[id].children = <<>>])


(***************************************************************************)
(* The filesystem calls.  Each yields [res, disk]; `fault` makes the call  *)
(* fail with an error of the operating system other than NotFound          *)
(* (permission denied, ...).  A result "over" means that the call would    *)
(* leave the modelled directory subtree.                                   *)
(***************************************************************************)
Sys(res, d) == [res |-> res, disk |-> d]

\* A notification is [kind, sub, path]: kind "Create", "Remove", "Rename"
\* (Modify(Name(Any)), one half of a rename) or "Other"; sub the CreateKind
\* or RemoveKind, "Any" when the backend gives none.
Ev(kind, sub, path) == [kind |-> kind, sub |-> sub, path |-> path]

\* the notifications of the removal of the tree at path, deepest first
RECURSIVE RemoveEvents(_, _)
RECURSIVE RemoveEventsAll(_, _)
RemoveEvents(d, path) ==
    RemoveEventsAll(d, SortPaths(ReadDir(d, path)))
        \o <<Ev("Remove", d[path], path)>>

RemoveEventsAll(d, paths) ==
    IF paths = <<>> THEN <<>>
    ELSE RemoveEvents(d, Head(paths)) \o RemoveEventsAll(d, Tail(paths))

\* the notifications of a call that turned the directory d into r.disk
CreateEvents(d, r, path) ==
    IF r.res = "Ok" /\ d[path] = "Absent" THEN <<Ev("Create", r.disk[path], path)>>
    ELSE <<>>

RenameEvents(d, r, src, dst) ==
    IF r.res = "Ok" /\ src # dst
    THEN <<Ev("Rename", "Any", src), Ev("Rename", "Any", dst)>>
    ELSE <<>>

\* fs::remove_dir_all for a Folder entry, fs::remove_file for a File entry
Remove(d, path, kind, fault) ==
    IF ~Exists(d, path) THEN Sys("NotFound", d)
    ELSE IF fault \/ d[path] # kind THEN Sys("IoError", d)
    ELSE Sys("Ok", RemoveTree(d, path))

\* fs::File::create_new
CreateNew(d, path, fault) ==
    IF ~Exists(d, ParentPath(path)) THEN Sys("NotFound", d)
    ELSE IF fault \/ d[ParentPath(path)] # "Folder" THEN Sys("IoError", d)
    ELSE IF path \notin DiskPaths THEN Sys("over", d)
    ELSE IF d[path] # "Absent" THEN Sys("AlreadyExists", d)
    ELSE Sys("Ok", [d EXCEPT ![path] = "File"])

\* fs::create_dir_all: an existing directory is a success
CreateDirAll(d, path, fault) ==
    IF fault THEN Sys("IoError", d)
    ELSE IF \E q \in DiskPaths : IsPrefix(q, path) /\ d[q] = "File"
    THEN Sys("AlreadyExists", d)
    ELSE IF Len(path) # 2 THEN Sys("over", d)
    ELSE Sys("Ok", [d EXCEPT ![path] = "Folder"])

\* fs::rename(src, dst)
Rename(d, src, dst, fault) ==
    IF ~Exists(d, src) \/ ~Exists(d, ParentPath(dst)) THEN Sys("NotFound", d)
    ELSE IF fault THEN Sys("IoError", d)
    ELSE IF src = dst THEN Sys("Ok", d)
    ELSE IF IsPrefix(src, dst) \/ d[ParentPath(dst)] # "Folder" THEN Sys("IoError", d)
    ELSE IF dst \notin DiskPaths \/ (d[src] = "Folder" /\ Len(dst) # 2)
    THEN Sys("over", d)
    ELSE IF d[dst] # "Absent" /\ (d[dst] # d[src] \/ ReadDir(d, dst) # {})
    THEN Sys("IoError", d)
    ELSE Sys("Ok",
             [q \in DiskPaths |->
                 IF IsPrefix(dst, q)
                 THEN LET from == src \o SubSeq(q, Len(dst) + 1, Len(q))
                      IN  IF from \in DiskPaths THEN d[from] ELSE "Absent"
                 ELSE IF IsPrefix(src, q) THEN "Absent" ELSE d[q]])

(***************************************************************************)
(* files.rs: the mutation operations.                                      *)
(***************************************************************************)
Return(t, res) == IF t.flag = "ok" THEN [t EXCEPT !.res = res] ELSE t

\* a filesystem result the model cannot follow ends the call as "over"
SysFlag(t, r) == IF r.res = "over" THEN Fail(t, "over") ELSE t

\* create without the refresh of the parent: the entry is added under the
\* name it was given and visible is left as it was
create_without_refresh(t, kind, name, fault) ==
    IF ~Live(t, t.selected) THEN Fail(t, "panic")
    ELSE
    LET id == t.selected
        e == t.entries[id]
        entry_id == IF e.kind = "Folder" THEN id ELSE e.parent
    IN  IF entry_id = NoId THEN Return(t, "InvalidInput")
        ELSE IF ~Live(t, entry_id) THEN Fail(t, "panic")
        ELSE
        LET newpath == Join(t.entries[entry_id].path, name)
            r == IF kind = "Folder" THEN CreateDirAll(t.disk, newpath, fault)
                 ELSE CreateNew(t.disk, newpath, fault)
        IN  IF r.res # "Ok" THEN Return(SysFlag(t, r), r.res)
            ELSE Return(add([t EXCEPT !.disk = r.disk,
                                      !.out = @ \o CreateEvents(t.disk, r, newpath)],
                            id, <<name>>, kind),
                        "Ok")

\* FileTree::create; kind is the CreateEntryKind, name its path
create(t, kind, name, fault) ==
    IF ~Live(t, t.selected) THEN Fail(t, "panic")
    ELSE
    LET id == t.selected
        e == t.entries[id]
        entry_id == IF e.kind = "Folder" THEN id ELSE e.parent
    IN  IF entry_id = NoId THEN Return(t, "InvalidInput")
        ELSE IF ~Live(t, entry_id) THEN Fail(t, "panic")
        ELSE
        LET newpath == Join(t.entries[entry_id].path, name)
            r == IF kind = "Folder" THEN CreateDirAll(t.disk, newpath, fault)
                 ELSE CreateNew(t.disk, newpath, fault)
        IN  IF r.res # "Ok" THEN Return(SysFlag(t, r), r.res)
            ELSE Return(reset_visible(
                            add([t EXCEPT !.disk = r.disk,
                                          !.out = @ \o CreateEvents(t.disk, r, newpath)],
                                id, <<name>>, kind),
                            entry_id),
                        "Ok")

\* FileTree::_delete_recursive: the keys it removes, or {NoId} when it
\* indexes a removed key
RECURSIVE Subtree(_, _)
RECURSIVE SubtreeAll(_, _)
Subtree(es, id) ==
    IF id \notin DOMAIN es THEN {NoId}
    ELSE {id} \cup SubtreeAll(es, es[id].children)

SubtreeAll(es, ch) ==
    IF ch = <<>> THEN {} ELSE Subtree(es, Head(ch)) \cup SubtreeAll(es, Tail(ch))

_delete_recursive(t, id) ==
    IF t.flag # "ok" THEN t
    ELSE LET gone == Subtree(t.entries, id)
         IN  IF NoId \in gone THEN Fail(t, "panic")
             ELSE [t EXCEPT !.entries =
                      [k \in (DOMAIN t.entries) \ gone |-> t.entries[k]]]

\* entries[parent].children.retain(|cid| *cid != id); _delete_recursive(id)
Detach(t, id) ==
    LET parent_id == t.entries[id].parent
    IN  IF parent_id = NoId \/ ~Live(t, parent_id) THEN Fail(t, "panic")
        ELSE _delete_recursive(
                [t EXCEPT !.entries[parent_id].children = Retain(@, id)], id)

\* idx = position(of).unwrap_or(1); selected = visible[idx - 1].id
SelectBefore(t, of) ==
    IF t.flag # "ok" THEN t
    ELSE LET pos == Position(t.visible, of)
             idx == IF pos = 0 THEN 1 ELSE pos - 1
         IN  IF idx = 0 \/ idx > Len(t.visible) THEN Fail(t, "panic")
             ELSE [t EXCEPT !.selected = t.visible[idx].id]

\* FileTree::delete
delete(t, id, fault) ==
    IF id = 0 THEN Return(t, "InvalidInput")
    ELSE IF ~Live(t, id) THEN Fail(t, "panic")
    ELSE LET r == Remove(t.disk, t.entries[id].path, t.entries[id].kind, fault)
         IN  IF r.res # "Ok" THEN Return(t, r.res)
             ELSE LET t1 == Detach(
                               [t EXCEPT !.disk = r.disk,
                                         !.out = @ \o RemoveEvents(t.disk,
                                                                   t.entries[id].path)],
                               id)
                  IN  Return(SetVisible(SelectBefore(t1, t1.selected)), "Ok")

\* the loop of batch_delete from the i-th marked id on; .done is set by the
\* two return statements inside the loop.  faultAt is the index of the
\* marked id whose removal the operating system refuses (0: none).
RECURSIVE BatchDeleteLoop(_, _, _)
BatchDeleteLoop(t, i, faultAt) ==
    IF t.flag # "ok" \/ i > Len(t.temp) THEN [tree |-> t, done |-> FALSE]
    ELSE LET id == t.temp[i]
         IN  IF id = 0 THEN [tree |-> Return(t, "Ok"), done |-> TRUE]
             ELSE IF ~Live(t, id) THEN [tree |-> Fail(t, "panic"), done |-> TRUE]
             ELSE LET r == Remove(t.disk, t.entries[id].path, t.entries[id].kind,
                                  i = faultAt)
                  IN  IF r.res = "NotFound" THEN BatchDeleteLoop(t, i + 1, faultAt)
                      ELSE IF r.res # "Ok"
                      THEN [tree |-> Return(t, r.res), done |-> TRUE]
                      ELSE BatchDeleteLoop(
                              Detach([t EXCEPT !.disk = r.disk,
                                               !.out = @ \o RemoveEvents(
                                                           t.disk, t.entries[id].path)],
                                     id),
                              i + 1, faultAt)

\* min_by over the positions in visible (None sorts first; of equal minima the
\* first is returned); NoId for an empty list
EarliestMarked(t) ==
    IF t.temp = <<>> THEN NoId
    ELSE LET pos(i) == Position(t.visible, t.temp[i])
             best == Min({pos(i) : i \in 1..Len(t.temp)})
         IN  t.temp[Min({i \in 1..Len(t.temp) : pos(i) = best})]

\* FileTree::batch_delete
batch_delete(t, faultAt) ==
    LET l == BatchDeleteLoop(t, 1, faultAt)
        t1 == l.tree
    IN  IF l.done \/ t1.flag # "ok" THEN t1
        ELSE IF EarliestMarked(t1) = NoId THEN Fail(t1, "panic")
        ELSE Return(SetVisible([SelectBefore(t1, EarliestMarked(t1))
                                   EXCEPT !.temp = <<>>]), "Ok")

\* FileTree::sort_children.  sort_by is a stable merge sort: the result is
\* the list sorted by cmp_entries, equal elements in their former order.
RECURSIVE SortIds(_, _)
SortIds(es, ch) ==
    IF ch = <<>> THEN <<>>
    ELSE LET i == Min({k \in 1..Len(ch) :
                          \A j \in 1..Len(ch) : LeqEntries(es, ch[k], ch[j])})
         IN  <<ch[i]>> \o SortIds(es, SubSeq(ch, 1, i - 1) \o SubSeq(ch, i + 1, Len(ch)))

sort_children(t, parent_id) ==
    IF t.flag # "ok" THEN t
    ELSE [t EXCEPT !.entries[parent_id].children = SortIds(t.entries, @)]

\* the body of the loop that only takes the moved id out of the children of
\* its old parent, which stays loaded and expanded
MoveEntry_keeps_old_parent(t, id, new_parent, newpath) ==
    LET old_parent == t.entries[id].parent
        t1 == IF old_parent = NoId THEN t
              ELSE [t EXCEPT !.entries[old_parent].children = Retain(@, id)]
    IN  IF old_parent # NoId /\ ~Live(t, old_parent) THEN Fail(t, "panic")
        ELSE [t1 EXCEPT !.entries[id].path = newpath,
                        !.entries[id].marked = FALSE,
                        !.entries[id].parent = new_parent,
                        !.entries[new_parent].visited = FALSE,
                        !.entries[new_parent].expanded = FALSE,
                        !.entries[new_parent].children = <<>>]

\* the body of the loop of batch_move for one marked id, after a successful
\* rename to newpath
MoveEntry(t, id, new_parent, newpath) ==
    LET old_parent == t.entries[id].parent
        t1 == IF old_parent = NoId THEN t
              ELSE [t EXCEPT !.entries[old_parent].children = <<>>,
                             !.entries[old_parent].visited = FALSE,
                             !.entries[old_parent].expanded = FALSE]
    IN  IF old_parent # NoId /\ ~Live(t, old_parent) THEN Fail(t, "panic")
        ELSE [t1 EXCEPT !.entries[id].path = newpath,
                        !.entries[id].marked = FALSE,
                        !.entries[id].parent = new_parent,
                        !.entries[new_parent].visited = FALSE,
                        !.entries[new_parent].expanded = FALSE,
                        !.entries[new_parent].children = <<>>]

RECURSIVE BatchMoveLoop(_, _, _, _)
BatchMoveLoop(t, ids, i, faultAt) ==
    IF t.flag # "ok" \/ i > Len(ids) THEN [tree |-> t, done |-> FALSE]
    ELSE LET id == ids[i]
             new_parent == t.selected
         IN  IF id = 0 THEN BatchMoveLoop(t, ids, i + 1, faultAt)
             ELSE IF ~Live(t, id) THEN [tree |-> Fail(t, "panic"), done |-> TRUE]
             ELSE LET newpath == Join(t.entries[new_parent].path,
                                      FileName(t.entries[id].path))
                      r == Rename(t.disk, t.entries[id].path, newpath, i = faultAt)
                      t1 == [t EXCEPT !.renames = t.renames + 1,
                                      !.out = @ \o RenameEvents(
                                                  t.disk, r, t.entries[id].path, newpath)]
                  IN  IF r.res # "Ok"
                      THEN [tree |-> Return(SysFlag(t1, r), r.res), done |-> TRUE]
                      ELSE BatchMoveLoop(
                              MoveEntry([t1 EXCEPT !.disk = r.disk], id, new_parent,
                                        newpath),
                              ids, i + 1, faultAt)

\* FileTree::batch_move
batch_move(t, faultAt) ==
    IF ~Live(t, t.selected) THEN Return(t, "Ok")
    ELSE LET l == BatchMoveLoop(t, t.temp, 1, faultAt)
             t1 == l.tree
         IN  IF l.done \/ t1.flag # "ok" THEN t1
             ELSE Return(SetVisible([sort_children(t1, t1.selected)
                                        EXCEPT !.temp = <<>>]), "Ok")

\* FileTree::mark
mark(t) ==
    IF ~Live(t, t.selected) THEN Fail(t, "panic")
    ELSE [t EXCEPT !.entries[t.selected].marked = ~@,
                   !.temp = Append(@, t.selected)]

\* FileTree::clear_marked
clear_marked(t) ==
    IF \E i \in 1..Len(t.temp) : ~Live(t, t.temp[i]) THEN Fail(t, "panic")
    ELSE [t EXCEPT !.entries = [k \in DOMAIN t.entries |->
                                   IF \E i \in 1..Len(t.temp) : t.temp[i] = k
                                   THEN [t.entries[k] EXCEPT !.marked = FALSE]
                                   ELSE t.entries[k]],
                   !.temp = <<>>]

\* FileTree::select_start
select_start(t) ==
    IF Len(t.visible) = 0 THEN Fail(t, "panic")
    ELSE [t EXCEPT !.selected = t.visible[1].id]

\* FileTree::select_end
select_end(t) ==
    IF Len(t.visible) = 0 THEN Fail(t, "panic")
    ELSE [t EXCEPT !.selected = t.visible[Len(t.visible)].id]

\* FileTree::move_up
move_up(t) ==
    LET pos == Position(t.visible, t.selected)
    IN  IF pos > 1
        THEN [t EXCEPT !.selected = t.visible[pos - 1].id,
                       !.view_offset = IF @ > 0 THEN @ - 1 ELSE 0]
        ELSE t

\* FileTree::move_down
move_down(t) ==
    LET pos == Position(t.visible, t.selected)
    IN  IF pos > 0
        THEN IF pos + 1 <= Len(t.visible)
             THEN [t EXCEPT !.selected = t.visible[pos + 1].id,
                            !.view_offset = IF pos >= @ + MAX_VISIBLE THEN @ + 1 ELSE @]
             ELSE t
        ELSE IF Len(t.visible) > 0 THEN [t EXCEPT !.selected = t.visible[1].id]
        ELSE t


(***************************************************************************)
(* files.rs: the change-event reconciler.                                  *)
(*                                                                         *)
(* An event is [kind, sub, path]: kind "Create", "Remove", "Rename"        *)
(* (Modify(Name(Any))) or "Other"; sub the CreateKind / RemoveKind, "Any"  *)
(* for the kinds handle_notify does not recognise.                         *)
(* entries.iter().find(..) visits the SlotMap in an order the tree does    *)
(* not control: Found is the set of its possible results, and the caller   *)
(* of handle_notify chooses among them.                                    *)
(***************************************************************************)
Found(es, path) ==
    IF \E id \in DOMAIN es : es[id].path = path
    THEN {id \in DOMAIN es : es[id].path = path}
    ELSE {NoId}

\* Entry::clear_children
clear_children(t, id) ==
    IF t.flag # "ok" THEN t
    ELSE [t EXCEPT !.entries[id].visited = FALSE, !.entries[id].children = <<>>]

\* the Create branch without the refresh of an expanded parent
NotifyCreate_add_only(t, ev, parent) ==
    IF ev.sub = "Any" THEN Return(t, "Unsupported")
    ELSE IF parent = NoId THEN Return(t, "Ok")
    ELSE LET expanded == t.entries[parent].expanded
             t1 == add(t, parent, ev.path, ev.sub)
         IN  Return(IF expanded THEN t1 ELSE clear_children(t1, parent), "Ok")

\* the Create branch; parent is the result of the find
NotifyCreate(t, ev, parent) ==
    IF ev.sub = "Any" THEN Return(t, "Unsupported")
    ELSE IF parent = NoId THEN Return(t, "Ok")
    ELSE LET expanded == t.entries[parent].expanded
             t1 == add(t, parent, ev.path, ev.sub)
         IN  Return(IF expanded THEN reset_visible(t1, parent)
                    ELSE clear_children(t1, parent), "Ok")

\* the Remove branch; id is the result of the find
NotifyRemove(t, ev, id) ==
    IF ev.sub = "Any" THEN Return(t, "Unsupported")
    ELSE IF id = NoId \/ t.entries[id].parent = NoId THEN Return(t, "Ok")
    ELSE LET pid == t.entries[id].parent
         IN  IF ~Live(t, pid) THEN Fail(t, "panic")
             ELSE LET t1 == _delete_recursive(
                               [t EXCEPT !.entries[pid].children = Retain(@, id)], id)
                      t2 == IF t1.flag = "ok" /\ ~Live(t1, t1.selected)
                            THEN SelectBefore(t1, t1.selected) ELSE t1
                  IN  Return(reset_visible(t2, pid), "Ok")

\* the Modify(Name(Any)) branch that keeps the buffered path when the entry
\* or the destination is not found
NotifyRename_keeps_pending(t, ev, old_id, new_pid) ==
    IF ~t.notify_modify
    THEN Return([t EXCEPT !.notify_modify = TRUE, !.modify_from = ev.path], "Ok")
    ELSE LET t0 == [t EXCEPT !.notify_modify = FALSE]
         IN  IF t.modify_from = NoPath THEN Return(t0, "InvalidInput")
             ELSE IF old_id = NoId \/ new_pid = NoId \/ t.entries[old_id].parent = NoId
             THEN Return(t0, "Ok")
             ELSE LET old_pid == t.entries[old_id].parent
                  IN  IF ~Live(t, old_pid) THEN Fail(t0, "panic")
                      ELSE LET t1 == [t0 EXCEPT
                                        !.entries[old_pid].children = Retain(@, old_id),
                                        !.entries[old_id].parent = new_pid,
                                        !.entries[old_id].path = ev.path]
                               t2 == reset_visible(reset_visible(t1, old_id), new_pid)
                           IN  Return(IF t2.flag = "ok"
                                      THEN [t2 EXCEPT !.modify_from = NoPath]
                                      ELSE t2, "Ok")

\* the Modify(Name(Any)) branch; old_id and new_pid are the results of the
\* two finds of the second half
NotifyRename(t, ev, old_id, new_pid) ==
    IF ~t.notify_modify
    THEN Return([t EXCEPT !.notify_modify = TRUE, !.modify_from = ev.path], "Ok")
    ELSE LET t0 == [t EXCEPT !.notify_modify = FALSE]
         IN  IF t.modify_from = NoPath THEN Return(t0, "InvalidInput")
             ELSE IF old_id = NoId \/ new_pid = NoId \/ t.entries[old_id].parent = NoId
             THEN Return([t0 EXCEPT !.modify_from = NoPath], "Ok")
             ELSE LET old_pid == t.entries[old_id].parent
                  IN  IF ~Live(t, old_pid) THEN Fail(t0, "panic")
                      ELSE LET t1 == [t0 EXCEPT
                                        !.entries[old_pid].children = Retain(@, old_id),
                                        !.entries[old_id].parent = new_pid,
                                        !.entries[old_id].path = ev.path]
                               t2 == reset_visible(reset_visible(t1, old_id), new_pid)
                           IN  Return(IF t2.flag = "ok"
                                      THEN [t2 EXCEPT !.modify_from = NoPath]
                                      ELSE t2, "Ok")

\* FileTree::handle_notify
handle_notify(t, ev, pick1, pick2) ==
    CASE ev.kind = "Create" -> NotifyCreate(t, ev, pick1)
      [] ev.kind = "Remove" -> NotifyRemove(t, ev, pick1)
      [] ev.kind = "Rename" -> NotifyRename(t, ev, pick1, pick2)
      [] OTHER -> Return(t, "Ok")

\* what the finds of handle_notify(ev) may yield in tree t
Picks1(t, ev) ==
    CASE ev.kind = "Create" -> Found(t.entries, ParentPath(ev.path))
      [] ev.kind = "Remove" -> Found(t.entries, ev.path)
      [] ev.kind = "Rename" /\ t.notify_modify /\ t.modify_from # NoPath ->
             Found(t.entries, t.modify_from)
      [] OTHER -> {NoId}

Picks2(t, ev) ==
    IF ev.kind = "Rename" /\ t.notify_modify /\ t.modify_from # NoPath
    THEN Found(t.entries, ParentPath(ev.path))
    ELSE {NoId}


(***************************************************************************)
(* files2.rs: the tree kept in a hash map, without a root entry.  The      *)
(* entries of the directory the tree is built on have no parent and depth  *)
(* 0.  An operation is a function of a tree value t with the fields        *)
(* entries, selected, visible, temp, next_id of the FileTree, the disk,    *)
(* and flag and res as above.  children is None exactly for the entries    *)
(* that are no Folder; the lookup map is written by add and read by no     *)
(* operation.  The current directory is the directory the tree is built    *)
(* on, as the tests set it.                                                *)
(***************************************************************************)
\* a relative path, as the filesystem resolves it
Abs(path) == IF path # <<>> /\ path[1] = "/" THEN path ELSE RootPath \o path

\* Ord for Entry: Folder before File, entries of one kind by path
cmp(es, a, b) ==
    IF es[a].kind = es[b].kind THEN PathCmp(es[a].path, es[b].path)
    ELSE IF es[a].kind = "Folder" /\ es[b].kind = "File" THEN "Less"
    ELSE IF es[a].kind = "File" /\ es[b].kind = "Folder" THEN "Greater"
    ELSE "Equal"

RECURSIVE Reverse(_)
Reverse(s) == IF s = <<>> THEN <<>> ELSE Reverse(Tail(s)) \o <<Head(s)>>

\* the children of id that entries.get finds
LiveChildren(es, id) == SelectSeq(es[id].children, LAMBDA c : c \in DOMAIN es)

\* FileTree::add (files2.rs): the child is pushed at the end of the
\* parent's list; unwrap panics on a parent without a list
add2(t, path, parent, kind) ==
    IF t.flag # "ok" THEN t
    ELSE IF t.next_id >= MaxIds2 THEN Fail(t, "over")
    ELSE LET id == t.next_id
             t1 == [t EXCEPT !.entries = (id :> Entry(path, kind, parent, FALSE))
                                            @@ t.entries,
                             !.next_id = id + 1]
         IN  IF parent = NoId \/ ~Live(t, parent) THEN t1
             ELSE IF t.entries[parent].kind # "Folder" THEN Fail(t1, "panic")
             ELSE [t1 EXCEPT !.entries[parent].children = Append(@, id)]

\* the loop of visit_root over its queue of <<depth, id>>: the entry at the
\* front is listed, and its children are pushed to the front one by one
RECURSIVE VisitRootLoop(_, _, _)
VisitRootLoop(es, queue, fuel) ==
    IF queue = <<>> \/ fuel = 0 THEN <<>>
    ELSE LET d == Head(queue)[1]
             id == Head(queue)[2]
             kids == IF es[id].expanded /\ es[id].kind = "Folder"
                     THEN LiveChildren(es, id) ELSE <<>>
             pushed == [i \in 1..Len(kids) |-> <<d + 1, Reverse(kids)[i]>>]
         IN  <<VisibleEntry(id, d)>>
                \o VisitRootLoop(es, pushed \o Tail(queue), fuel - 1)

\* a set of ids as the list sorted by cmp (ids that compare Equal: by id)
RECURSIVE SortIds2(_, _)
SortIds2(es, S) ==
    IF S = {} THEN <<>>
    ELSE LET m == Min({a \in S : \A b \in S :
                          \/ cmp(es, a, b) = "Less"
                          \/ cmp(es, a, b) = "Equal" /\ a <= b})
         IN  <<m>> \o SortIds2(es, S \ {m})

\* the entries without a parent, sorted by cmp
TopLevel(es) == SortIds2(es, {id \in DOMAIN es : es[id].parent = NoId})

\* FileTree::visit_root
visit_root(es) ==
    LET top == TopLevel(es)
    IN  VisitRootLoop(es, [i \in 1..Len(top) |-> <<0, top[i]>>], 2 * MaxIds2)

\* sort_by over entries.values(): the order of entries that compare Equal is
\* the order of the hash map, which the tree does not control
TopLevelIsOrdered(es) ==
    \A a, b \in {id \in DOMAIN es : es[id].parent = NoId} :
        a # b => cmp(es, a, b) # "Equal"

SetVisible2(t) ==
    IF t.flag # "ok" THEN t
    ELSE IF ~TopLevelIsOrdered(t.entries) THEN Fail(t, "unspec")
    ELSE [t EXCEPT !.visible = visit_root(t.entries)]

\* the loop of visit over its queue of <<id, depth>>: the children of the
\* entry at the front are listed, the expanded ones pushed to the front
RECURSIVE VisitLoop(_, _, _)
VisitLoop(es, queue, fuel) ==
    IF queue = <<>> \/ fuel = 0 THEN <<>>
    ELSE LET id == Head(queue)[1]
             d == Head(queue)[2]
             kids == IF id \in DOMAIN es /\ es[id].expanded /\ es[id].kind = "Folder"
                     THEN LiveChildren(es, id) ELSE <<>>
             open == Reverse(SelectSeq(kids, LAMBDA c : es[c].expanded))
         IN  [i \in 1..Len(kids) |-> VisibleEntry(kids[i], d)]
                \o VisitLoop(es, [i \in 1..Len(open) |-> <<open[i], d + 1>>]
                                     \o Tail(queue), fuel - 1)

\* FileTree::visit
visit(t, id) ==
    IF t.flag # "ok" \/ ~Live(t, id) THEN t
    ELSE IF t.entries[id].kind # "Folder" THEN t
    ELSE LET i == Position(t.visible, id)
         IN  IF i = 0 THEN Fail(t, "panic")
             ELSE LET d == t.visible[i].depth
                      deeper == {k \in (i + 1)..Len(t.visible) :
                                    \A m \in (i + 1)..k : t.visible[m].depth > d}
                      j == i + Cardinality(deeper)
                      to_insert == IF t.entries[id].expanded
                                   THEN VisitLoop(t.entries, <<<<t.selected, d + 1>>>>,
                                                  2 * MaxIds2)
                                   ELSE <<>>
                  IN  [t EXCEPT !.visible = SubSeq(t.visible, 1, i) \o to_insert
                                     \o SubSeq(t.visible, j + 1, Len(t.visible))]

\* add for each path of the list, as the read_dir loops of add_many and
\* enter do
RECURSIVE AddAll2(_, _, _)
AddAll2(t, parent, paths) ==
    IF paths = <<>> THEN t
    ELSE AddAll2(add2(t, Head(paths), parent, t.disk[Head(paths)]), parent,
                 Tail(paths))

\* the orders in which read_dir may yield the entries of a directory
ReadOrders(d, path) ==
    LET S == ReadDir(d, Abs(path))
    IN  {o \in [1..Cardinality(S) -> S] : \A i, j \in 1..Cardinality(S) :
                                             i # j => o[i] # o[j]}

\* FileTree::select_start (files2.rs)
select_start2(t) ==
    IF t.flag # "ok" THEN t
    ELSE IF Len(t.visible) = 0 THEN Fail(t, "panic")
    ELSE [t EXCEPT !.selected = t.visible[1].id]

\* FileTree::select_end (files2.rs)
select_end2(t) ==
    IF Len(t.visible) = 0 THEN Fail(t, "panic")
    ELSE [t EXCEPT !.selected = t.visible[Len(t.visible)].id]

\* FileTree::new (files2.rs); order is the order read_dir yields
new2(d, order) ==
    select_start2(SetVisible2(AddAll2(
        [entries |-> <<>>, selected |-> 0, visible |-> <<>>, temp |-> <<>>,
         next_id |-> 0, disk |-> d, flag |-> "ok", res |-> "Ok",
         reads |-> 0, renames |-> 0],
        NoId, order)))

\* FileTree::enter (files2.rs); order is the order read_dir yields
enter2(t, order) ==
    IF ~Live(t, t.selected) THEN t
    ELSE LET id == t.selected
             e == t.entries[id]
         IN  IF e.kind # "Folder" THEN t
             ELSE LET t1 == [t EXCEPT !.entries[id].expanded = ~e.expanded,
                                      !.entries[id].visited = TRUE]
                  IN  visit(IF e.visited THEN t1 ELSE AddAll2(t1, id, order), id)

\* FileTree::create (files2.rs).  path.ends_with("/") compares whole
\* components: it is false for every name, so a File is created.
create2(t, name) ==
    LET t1 == IF ~Live(t, t.selected) THEN t
              ELSE LET e == t.entries[t.selected]
                       r == CreateNew(t.disk, Abs(Join(e.path, name)), FALSE)
                   IN  IF r.res # "Ok" THEN Return(SysFlag(t, r), r.res)
                       ELSE add2([t EXCEPT !.disk = r.disk], <<name>>, t.selected,
                                 "File")
    IN  IF t1.flag # "ok" \/ t1.res # "Ok" THEN t1 ELSE visit(t1, t1.selected)

\* FileTree::_delete (files2.rs)
_delete2(t, id) ==
    IF t.flag # "ok" \/ t.res # "Ok" \/ ~Live(t, id) THEN t
    ELSE LET e == t.entries[id]
             r == Remove(t.disk, Abs(e.path), e.kind, FALSE)
             t1 == [t EXCEPT !.disk = r.disk]
             drop(es) == [k \in (DOMAIN es) \ {id} |-> es[k]]
         IN  IF r.res # "Ok" THEN Return(t, r.res)
             ELSE IF e.parent # NoId /\ Live(t, e.parent)
             THEN IF \E i \in 1..Len(t.entries[e.parent].children) :
                        t.entries[e.parent].children[i] = id
                  THEN [t1 EXCEPT !.entries =
                           drop([@ EXCEPT ![e.parent].children = Retain(@, id)])]
                  ELSE t1
             ELSE [t1 EXCEPT !.entries = drop(@)]

\* FileTree::delete (files2.rs)
delete2(t, id) ==
    LET t1 == _delete2(t, id)
    IN  IF t1.res # "Ok" THEN t1 ELSE SetVisible2(t1)

\* the directory _rename moves into: the new parent when it is a folder, the
\* parent of a new parent that is a file, else the current directory;
\* NoPath when the parent of the file is gone (a panic)
NewParentPath(es, new_parent) ==
    IF new_parent = NoId \/ new_parent \notin DOMAIN es THEN RootPath
    ELSE IF es[new_parent].kind = "Folder" THEN es[new_parent].path
    ELSE IF es[new_parent].parent = NoId THEN RootPath
    ELSE IF es[new_parent].parent \in DOMAIN es THEN es[es[new_parent].parent].path
    ELSE NoPath

\* _rename that leaves the moved id in the children of its old parent
_rename2_keeps_child(t, id, new_parent) ==
    IF t.flag # "ok" \/ t.res # "Ok" \/ ~Live(t, id) THEN [tree |-> t, ret |-> id]
    ELSE
    LET es == t.entries
        oldpath == es[id].path
        dir == NewParentPath(es, new_parent)
        newpath == Join(dir, FileName(oldpath))
        r == Rename(t.disk, Abs(oldpath), Abs(newpath), FALSE)
        old_parent == IF es[id].parent # NoId /\ Live(t, es[id].parent)
                      THEN es[id].parent ELSE NoId
        listed == old_parent # NoId /\ \E i \in 1..Len(es[old_parent].children) :
                                          es[old_parent].children[i] = id
        to_folder == new_parent # NoId /\ Live(t, new_parent)
                        /\ es[new_parent].kind = "Folder"
        es2 == IF listed /\ to_folder
               THEN [es EXCEPT ![new_parent].children = Append(@, id)]
               ELSE es
        es3 == [es2 EXCEPT ![id].path = newpath,
                           ![id].parent = IF to_folder THEN new_parent ELSE NoId]
    IN  IF dir = NoPath THEN [tree |-> Fail(t, "panic"), ret |-> id]
        ELSE IF oldpath = newpath THEN [tree |-> t, ret |-> id]
        ELSE IF r.res # "Ok" THEN [tree |-> Return(SysFlag(t, r), r.res), ret |-> id]
        ELSE [tree |-> [t EXCEPT !.disk = r.disk, !.entries = es3],
              ret |-> IF old_parent = NoId THEN id ELSE old_parent]

\* FileTree::_rename (files2.rs): [tree, ret], ret the id it returns
_rename2(t, id, new_parent) ==
    IF t.flag # "ok" \/ t.res # "Ok" \/ ~Live(t, id) THEN [tree |-> t, ret |-> id]
    ELSE
    LET es == t.entries
        oldpath == es[id].path
        dir == NewParentPath(es, new_parent)
        newpath == Join(dir, FileName(oldpath))
        r == Rename(t.disk, Abs(oldpath), Abs(newpath), FALSE)
        old_parent == IF es[id].parent # NoId /\ Live(t, es[id].parent)
                      THEN es[id].parent ELSE NoId
        listed == old_parent # NoId /\ \E i \in 1..Len(es[old_parent].children) :
                                          es[old_parent].children[i] = id
        to_folder == new_parent # NoId /\ Live(t, new_parent)
                        /\ es[new_parent].kind = "Folder"
        es1 == IF listed
               THEN [es EXCEPT ![old_parent].children = Retain(@, id)]
               ELSE es
        es2 == IF listed /\ to_folder
               THEN [es1 EXCEPT ![new_parent].children = Append(@, id)]
               ELSE es1
        es3 == [es2 EXCEPT ![id].path = newpath,
                           ![id].parent = IF to_folder THEN new_parent ELSE NoId]
    IN  IF dir = NoPath THEN [tree |-> Fail(t, "panic"), ret |-> id]
        ELSE IF oldpath = newpath THEN [tree |-> t, ret |-> id]
        ELSE IF r.res # "Ok" THEN [tree |-> Return(SysFlag(t, r), r.res), ret |-> id]
        ELSE [tree |-> [t EXCEPT !.disk = r.disk, !.entries = es3],
              ret |-> IF old_parent = NoId THEN id ELSE old_parent]

\* FileTree::rename (files2.rs)
rename2(t, id, new_parent) ==
    LET r == _rename2(t, id, new_parent)
        t1 == r.tree
        above == IF new_parent # NoId /\ Live(t1, new_parent)
                    /\ t1.entries[new_parent].parent # NoId
                    /\ Live(t1, t1.entries[new_parent].parent)
                 THEN t1.entries[new_parent].parent ELSE NoId
    IN  IF t1.flag # "ok" \/ t1.res # "Ok" THEN t1
        ELSE IF r.ret = id THEN Fail(t1, "panic")
        ELSE IF above # NoId THEN visit(t1, above)
        ELSE SetVisible2(t1)

\* FileTree::mark (files2.rs)
mark2(t) ==
    IF ~Live(t, t.selected) THEN t
    ELSE [t EXCEPT !.entries[t.selected].marked = ~@,
                   !.temp = Append(@, t.selected)]

\* FileTree::clear_marked (files2.rs)
clear_marked2(t) ==
    IF t.flag # "ok" THEN t
    ELSE [t EXCEPT !.entries = [k \in DOMAIN t.entries |->
                                   IF \E i \in 1..Len(t.temp) : t.temp[i] = k
                                   THEN [t.entries[k] EXCEPT !.marked = FALSE]
                                   ELSE t.entries[k]],
                   !.temp = <<>>]

RECURSIVE DeleteAll2(_, _)
DeleteAll2(t, ids) ==
    IF ids = <<>> THEN t ELSE DeleteAll2(_delete2(t, Head(ids)), Tail(ids))

\* FileTree::batch_delete (files2.rs)
batch_delete2(t) ==
    LET t1 == DeleteAll2(t, t.temp)
    IN  IF t1.flag # "ok" \/ t1.res # "Ok" THEN t1
        ELSE SetVisible2([t1 EXCEPT !.temp = <<>>])

RECURSIVE RenameAll2(_, _, _)
RenameAll2(t, ids, new_parent) ==
    IF ids = <<>> THEN t
    ELSE RenameAll2(_rename2(t, Head(ids), new_parent).tree, Tail(ids), new_parent)

\* FileTree::batch_move (files2.rs)
batch_move2(t) ==
    LET new_parent == IF Live(t, t.selected) THEN t.selected ELSE NoId
        t1 == RenameAll2(t, t.temp, new_parent)
    IN  IF t1.flag # "ok" \/ t1.res # "Ok" THEN t1
        ELSE clear_marked2(IF new_parent # NoId THEN visit(t1, new_parent)
                           ELSE SetVisible2(t1))

(***************************************************************************)
(* The state.                                                              *)
(***************************************************************************)
VARIABLES
    disk,           \* the filesystem
    status,         \* "running", "panicked" once a call has panicked
    last,           \* the last call: [op, arg, ev, res, reads, renames]
    steps,          \* the calls so far, navigation apart
    budget,         \* the calls a behaviour may make
    queue,          \* the notifications the watcher has not delivered yet
    externals,      \* the changes of other processes so far
    \* the fields of files.rs FileTree (root is key 0)
    entries, selected, visible, view_offset, temp, next_id,
    notify_modify, modify_from,
    \* the fields of files2.rs FileTree
    entries2, selected2, visible2, temp2, next_id2

vars4 == <<entries, selected, visible, view_offset, temp, next_id,
           notify_modify, modify_from>>

vars2 == <<entries2, selected2, visible2, temp2, next_id2>>

vars == <<disk, status, last, steps, budget, queue, externals, vars4, vars2>>

\* the tree of files.rs as a value
Tree ==
    [entries |-> entries, selected |-> selected, visible |-> visible,
     view_offset |-> view_offset, temp |-> temp, next_id |-> next_id,
     notify_modify |-> notify_modify, modify_from |-> modify_from,
     disk |-> disk, flag |-> "ok", res |-> "Ok", reads |-> 0, renames |-> 0,
     out |-> <<>>]

\* the record of a call: arg is the id handed to delete, ev the kind of the
\* event handed to handle_notify
\* streak counts the enter calls made in a row, up to MaxStreak
Call(op, arg, ev, t) ==
    [op |-> op, arg |-> arg, ev |-> ev,
     res |-> IF t.flag = "ok" THEN t.res ELSE t.flag,
     reads |-> t.reads, renames |-> t.renames,
     streak |-> IF op # "enter" THEN 0
                ELSE IF last.streak < MaxStreak THEN last.streak + 1
                ELSE MaxStreak]

NoCall(op) ==
    [op |-> op, arg |-> NoId, ev |-> "", res |-> "Ok", reads |-> 0, renames |-> 0,
     streak |-> 0]

\* the state after a call of the files.rs tree that ended as t, which took
\* `delivered` notifications from the channel.  A panic ends the process: what
\* the filesystem calls did stays done, the tree is kept as it was when the
\* call began.
Effect(op, arg, ev, t, delivered) ==
    /\ status = "running"
    /\ UNCHANGED <<budget, vars2>>
    /\ t.flag # "over"
    /\ Len(queue) - delivered + Len(t.out) <= MaxQueue
    /\ queue' = SubSeq(queue, delivered + 1, Len(queue)) \o t.out
    /\ disk' = t.disk
    /\ last' = Call(op, arg, ev, t)
    /\ IF t.flag = "ok"
       THEN /\ status' = "running"
            /\ entries' = t.entries
            /\ selected' = t.selected
            /\ visible' = t.visible
            /\ view_offset' = t.view_offset
            /\ temp' = t.temp
            /\ next_id' = t.next_id
            /\ notify_modify' = t.notify_modify
            /\ modify_from' = t.modify_from
       ELSE /\ status' = IF t.flag = "panic" THEN "panicked" ELSE t.flag
            /\ UNCHANGED vars4

\* a navigation
Nav(op, t) ==
    /\ UNCHANGED <<steps, externals>>
    /\ Effect(op, NoId, "", t, 0)

\* a call the user makes
Commit(op, arg, t) ==
    /\ steps < budget
    /\ steps' = steps + 1
    /\ UNCHANGED externals
    /\ Effect(op, arg, "", t, 0)

Disks == {d \in [DiskPaths -> {"Absent", "File", "Folder"}] : DiskOk(d)}

\* the directories the tree is built on: a folder a holding the file a/a,
\* beside it either an empty folder b, or a file b and a second file a/b
InitDisks ==
    {d \in Disks :
        /\ d[<<"/", "a">>] = "Folder" /\ d[<<"/", "a", "a">>] = "File"
        /\ \/ d[<<"/", "b">>] = "Folder" /\ ReadDir(d, <<"/", "b">>) = {}
                                          /\ d[<<"/", "a", "b">>] = "Absent"
           \/ d[<<"/", "b">>] = "File" /\ d[<<"/", "a", "b">>] = "File"}

Init4(d) ==
    LET t == new(d)
    IN  /\ entries = t.entries
        /\ selected = t.selected
        /\ visible = t.visible
        /\ view_offset = t.view_offset
        /\ temp = t.temp
        /\ next_id = t.next_id
        /\ notify_modify = t.notify_modify
        /\ modify_from = t.modify_from

\* ui.rs builds the tree of files.rs only: no tree of files2.rs
Idle2 ==
    /\ entries2 = <<>>
    /\ selected2 = 0
    /\ visible2 = <<>>
    /\ temp2 = <<>>
    /\ next_id2 = 0

InitOf(n) ==
    /\ budget = n
    /\ disk \in InitDisks
    /\ status = "running"
    /\ steps = 0
    /\ queue = <<>>
    /\ externals = 0
    /\ last = [NoCall("new") EXCEPT !.reads = 1]
    /\ Init4(disk)
    /\ Idle2

(***************************************************************************)
(* The calls of the files.rs tree (ui.rs: update).                         *)
(***************************************************************************)
Enter == Commit("enter", NoId, enter(Tree))

Create ==
    \E kind \in {"File", "Folder"}, name \in Names, fault \in BOOLEAN :
        Commit("create", NoId, create(Tree, kind, name, fault))

\* Message::Delete hands delete the selected id
Delete ==
    \E fault \in BOOLEAN :
        Commit("delete", selected, delete(Tree, selected, fault))

BatchDelete ==
    \E faultAt \in 0..Len(temp) :
        Commit("batch_delete", NoId, batch_delete(Tree, faultAt))

BatchMove ==
    \E faultAt \in 0..Len(temp) :
        Commit("batch_move", NoId, batch_move(Tree, faultAt))

Mark ==
    /\ Len(temp) < MaxMarks
    /\ Commit("mark", NoId, mark(Tree))

ClearMarked == Commit("clear_marked", NoId, clear_marked(Tree))

SelectStart == Nav("select_start", select_start(Tree))

SelectEnd == Nav("select_end", select_end(Tree))

MoveUp == Nav("move_up", move_up(Tree))

MoveDown == Nav("move_down", move_down(Tree))

\* what the backend may make of a notification: the kind of a created or
\* removed entry may be missing
Reported(ev) ==
    IF ev.kind \in {"Create", "Remove"} THEN {ev, [ev EXCEPT !.sub = "Any"]}
    ELSE {ev}

\* Message::FsEvent: the next notification of the channel goes to
\* handle_notify
HandleNotify ==
    /\ queue # <<>>
    /\ steps < budget
    /\ steps' = steps + 1
    /\ UNCHANGED externals
    /\ \E ev \in Reported(Head(queue)) :
          \E pick1 \in Picks1(Tree, ev), pick2 \in Picks2(Tree, ev) :
              Effect("handle_notify", NoId, ev.kind,
                     handle_notify(Tree, ev, pick1, pick2), 1)

\* a notification of a kind handle_notify has no branch for (a change of
\* data or metadata) goes to handle_notify
HandleOther ==
    /\ steps < budget
    /\ steps' = steps + 1
    /\ UNCHANGED externals
    /\ \E path \in DiskPaths :
          /\ Exists(disk, path) /\ disk[path] = "File"
          /\ Effect("handle_notify", NoId, "Other",
                    handle_notify(Tree, Ev("Other", "Any", path), NoId, NoId), 0)

\* the watcher sees a change another process made
Watched(evs) ==
    /\ Len(queue) + Len(evs) <= MaxQueue
    /\ queue' = queue \o evs

\* another process removes an entry of the directory, or moves it out of
\* the watched directory (one half of a rename is all the watcher sees)
ExternalRemove ==
    \E p \in DiskPaths \ {RootPath} :
        /\ Exists(disk, p)
        /\ disk' = RemoveTree(disk, p)
        /\ \/ Watched(RemoveEvents(disk, p))
           \/ Watched(<<Ev("Rename", "Any", p)>>)

\* another process creates an entry, or moves one into the directory
ExternalCreate ==
    \E p \in DiskPaths \ {RootPath}, k \in {"File", "Folder"} :
        /\ ~Exists(disk, p)
        /\ disk' = [disk EXCEPT ![p] = k]
        /\ DiskOk(disk')
        /\ \/ Watched(<<Ev("Create", k, p)>>)
           \/ Watched(<<Ev("Rename", "Any", p)>>)

\* another process renames an entry inside the directory
ExternalRename ==
    \E p, q \in DiskPaths \ {RootPath} :
        LET r == Rename(disk, p, q, FALSE)
        IN  /\ p # q
            /\ r.res = "Ok"
            /\ disk' = r.disk
            /\ Watched(RenameEvents(disk, r, p, q))

External ==
    /\ status = "running"
    /\ externals < MaxExternal /\ steps < budget
    /\ externals' = externals + 1 /\ steps' = steps + 1
    /\ (ExternalRemove \/ ExternalCreate \/ ExternalRename)
    /\ last' = NoCall("external")
    /\ UNCHANGED <<status, budget, vars4, vars2>>

Next ==
    \/ Enter
    \/ Create
    \/ Delete
    \/ BatchDelete
    \/ BatchMove
    \/ Mark
    \/ ClearMarked
    \/ SelectStart
    \/ SelectEnd
    \/ MoveUp
    \/ MoveDown
    \/ HandleNotify
    \/ HandleOther
    \/ External

Init == InitOf(MaxSteps)

Spec == Init /\ [][Next]_vars

\* the behaviours of marking and batch deletion while other processes change
\* the directory: fewer calls to choose from, one call more
InitBatch == InitOf(MaxBatchSteps)

NextBatch ==
    \/ Enter
    \/ Mark
    \/ ClearMarked
    \/ BatchDelete
    \/ SelectStart
    \/ SelectEnd
    \/ MoveUp
    \/ MoveDown
    \/ External

SpecBatch == InitBatch /\ [][NextBatch]_vars

(***************************************************************************)
(* The calls of the files2.rs tree, made as its tests make them: selected  *)
(* is set to the id of an entry, then an operation is called.              *)
(***************************************************************************)
Tree2 ==
    [entries |-> entries2, selected |-> selected2, visible |-> visible2,
     temp |-> temp2, next_id |-> next_id2, disk |-> disk, flag |-> "ok",
     res |-> "Ok", reads |-> 0, renames |-> 0]

\* the state after a call of the files2.rs tree that ended as t
Effect2(op, arg, t) ==
    /\ status = "running"
    /\ t.flag # "over"
    /\ disk' = t.disk
    /\ last' = Call(op, arg, "", t)
    /\ IF t.flag = "ok"
       THEN /\ status' = "running"
            /\ entries2' = t.entries
            /\ selected2' = t.selected
            /\ visible2' = t.visible
            /\ temp2' = t.temp
            /\ next_id2' = t.next_id
       ELSE /\ status' = IF t.flag = "panic" THEN "panicked" ELSE t.flag
            /\ UNCHANGED vars2
    /\ UNCHANGED <<budget, queue, externals, vars4>>

Commit2(op, arg, t) ==
    /\ steps < budget
    /\ steps' = steps + 1
    /\ Effect2(op, arg, t)

\* tree.selected = id
Select2 ==
    \E id \in DOMAIN entries2 :
        /\ UNCHANGED steps
        /\ Effect2("files2.select", id, [Tree2 EXCEPT !.selected = id])

SelectStart2 == UNCHANGED steps /\ Effect2("files2.select_start", NoId, select_start2(Tree2))

SelectEnd2 == UNCHANGED steps /\ Effect2("files2.select_end", NoId, select_end2(Tree2))

Enter2 ==
    \E order \in (IF selected2 \in DOMAIN entries2
                  THEN ReadOrders(disk, entries2[selected2].path)
                  ELSE {<<>>}) :
        Commit2("files2.enter", NoId, enter2(Tree2, order))

Create2 == \E name \in Names : Commit2("files2.create", NoId, create2(Tree2, name))

Delete2 == \E id \in DOMAIN entries2 : Commit2("files2.delete", id, delete2(Tree2, id))

Rename2 ==
    \E id \in DOMAIN entries2, new_parent \in DOMAIN entries2 \cup {NoId} :
        Commit2("files2.rename", id, rename2(Tree2, id, new_parent))

Mark2 ==
    /\ Len(temp2) < MaxMarks
    /\ Commit2("files2.mark", NoId, mark2(Tree2))

ClearMarked2 == Commit2("files2.clear_marked", NoId, clear_marked2(Tree2))

BatchDelete2 == Commit2("files2.batch_delete", NoId, batch_delete2(Tree2))

BatchMove2 == Commit2("files2.batch_move", NoId, batch_move2(Tree2))

\* FileTree::new of files2.rs on one of the directories
InitOf2(n, D) ==
    /\ budget = n
    /\ disk \in D
    /\ status = "running"
    /\ steps = 0
    /\ queue = <<>>
    /\ externals = 0
    /\ last = [NoCall("new") EXCEPT !.reads = 1]
    /\ Init4(disk)
    /\ \E order \in ReadOrders(disk, RootPath) :
          LET t == new2(disk, order)
          IN  /\ entries2 = t.entries
              /\ selected2 = t.selected
              /\ visible2 = t.visible
              /\ temp2 = t.temp
              /\ next_id2 = t.next_id

Init2 == InitOf2(MaxSteps2, InitDisks)

Next2 ==
    \/ Select2
    \/ SelectStart2
    \/ SelectEnd2
    \/ Enter2
    \/ Create2
    \/ Delete2
    \/ Rename2
    \/ Mark2
    \/ ClearMarked2
    \/ BatchDelete2
    \/ BatchMove2

Spec2 == Init2 /\ [][Next2]_vars

\* the behaviours of enter and create on the two trees, built on one
\* directory: two folders a and b, b empty, a empty or holding the file a/a
CreateDisks ==
    {d \in Disks :
        /\ d[<<"/", "a">>] = "Folder" /\ d[<<"/", "b">>] = "Folder"
        /\ ReadDir(d, <<"/", "b">>) = {}
        /\ d[<<"/", "a", "b">>] = "Absent"}

InitCreate == InitOf2(MaxCreateSteps, CreateDisks)

NextCreate ==
    \/ Enter
    \/ Create
    \/ SelectStart
    \/ SelectEnd
    \/ MoveUp
    \/ MoveDown
    \/ Select2
    \/ Enter2
    \/ Create2

SpecCreate == InitCreate /\ [][NextCreate]_vars

\* the directories of the rename tests: one folder that holds entries, and
\* no other entry beside it, so that the names of the folder's entries are
\* free in the current directory
RenameDisks ==
    {d \in Disks :
        \E x \in Names :
            /\ d[<<"/", x>>] = "Folder"
            /\ ReadDir(d, <<"/", x>>) # {}
            /\ \A y \in Names \ {x} : d[<<"/", y>>] = "Absent"}

InitRename == InitOf2(MaxRenameSteps, RenameDisks)

NextRename ==
    \/ Select2
    \/ SelectStart2
    \/ SelectEnd2
    \/ Enter2
    \/ Rename2

SpecRename == InitRename /\ [][NextRename]_vars

(***************************************************************************)
(* The tree of files.rs on a directory of more files than the window has   *)
(* rows, under the navigation keys.                                        *)
(***************************************************************************)
\* the name of the i-th file of the directory: two digits, so that the order
\* of the names is the order of i
LongName(i) == ToString(9 + i)

LongPath(i) == <<"/", LongName(i)>>

\* a directory holding n files and nothing else
LongDir(n) ==
    [p \in {RootPath} \cup {LongPath(i) : i \in 1..n} |->
        IF p = RootPath THEN "Folder" ELSE "File"]

\* FileTree::new on LongDir(n): the root, expanded, and its n files
LongTree(n) ==
    [entries |-> [i \in 0..n |->
                     IF i = 0
                     THEN [Entry(RootPath, "Folder", NoId, TRUE) EXCEPT
                              !.children = [k \in 1..n |-> k]]
                     ELSE Entry(LongPath(i), "File", 0, FALSE)],
     selected |-> 0,
     visible |-> [k \in 1..(n + 1) |-> VisibleEntry(k - 1, IF k = 1 THEN 0 ELSE 1)],
     view_offset |-> 0, temp |-> <<>>, next_id |-> n + 1,
     notify_modify |-> FALSE, modify_from |-> NoPath]

InitScroll ==
    /\ budget = 0
    /\ status = "running"
    /\ steps = 0
    /\ queue = <<>>
    /\ externals = 0
    /\ last = [NoCall("new") EXCEPT !.reads = 1]
    /\ \E n \in MAX_VISIBLE..(MAX_VISIBLE + MaxScroll) :
          LET t == LongTree(n)
          IN  /\ disk = LongDir(n)
              /\ entries = t.entries
              /\ selected = t.selected
              /\ visible = t.visible
              /\ view_offset = t.view_offset
              /\ temp = t.temp
              /\ next_id = t.next_id
              /\ notify_modify = t.notify_modify
              /\ modify_from = t.modify_from
    /\ Idle2

NextScroll ==
    \/ MoveUp
    \/ MoveDown
    \/ SelectStart
    \/ SelectEnd

SpecScroll == InitScroll /\ [][NextScroll]_vars

(***************************************************************************)
(* The same tree when another process has emptied the directory (its       *)
(* notifications are still to come): the navigation keys and enter, which  *)
(* reads the directory of the root it toggles and finds nothing to add.    *)
(***************************************************************************)
InitCollapse ==
    /\ budget = MaxCollapseSteps
    /\ status = "running"
    /\ steps = 0
    /\ queue = <<>>
    /\ externals = 0
    /\ last = [NoCall("new") EXCEPT !.reads = 1]
    /\ disk = [p \in DiskPaths |-> IF p = RootPath THEN "Folder" ELSE "Absent"]
    /\ \E n \in MAX_VISIBLE..(MAX_VISIBLE + MaxScroll) :
          LET t == LongTree(n)
          IN  /\ entries = t.entries
              /\ selected = t.selected
              /\ visible = t.visible
              /\ view_offset = t.view_offset
              /\ temp = t.temp
              /\ next_id = t.next_id
              /\ notify_modify = t.notify_modify
              /\ modify_from = t.modify_from
    /\ Idle2

SpecCollapse == InitCollapse /\ [][NextScroll \/ Enter]_vars

(***************************************************************************)
(* The tree of files.rs under delete(id) called for any entry, as its test *)
(* calls it: the selection stays where it is, id is an entry found in the  *)
(* store.                                                                  *)
(***************************************************************************)
DeleteOf ==
    \E id \in DOMAIN entries, fault \in BOOLEAN :
        Commit("delete", id, delete(Tree, id, fault))

NextDelete ==
    \/ Enter
    \/ DeleteOf
    \/ SelectStart
    \/ SelectEnd
    \/ MoveUp
    \/ MoveDown

SpecDelete == InitOf(MaxDeleteSteps) /\ [][NextDelete]_vars

(***************************************************************************)
(* The tree of files.rs when another process removes the watched directory *)
(* itself: the watcher reports the removal of its entries, deepest first,  *)
(* and of the directory.                                                   *)
(***************************************************************************)
ExternalRemoveRoot ==
    /\ status = "running"
    /\ externals < MaxExternal /\ steps < budget
    /\ externals' = externals + 1 /\ steps' = steps + 1
    /\ Exists(disk, RootPath)
    /\ disk' = RemoveTree(disk, RootPath)
    /\ Watched(RemoveEvents(disk, RootPath))
    /\ last' = NoCall("external")
    /\ UNCHANGED <<status, budget, vars4, vars2>>

NextRootRemoved ==
    \/ ExternalRemoveRoot
    \/ HandleNotify
    \/ Enter
    \/ SelectStart
    \/ SelectEnd
    \/ MoveUp
    \/ MoveDown

SpecRootRemoved == InitOf(MaxRootSteps) /\ [][NextRootRemoved]_vars

(***************************************************************************)
(* The tree of files.rs when the watcher reports a change more than once:  *)
(* the channel hands every event of the backend to handle_notify, and a    *)
(* backend may emit the same event again.                                  *)
(***************************************************************************)
Redeliver ==
    /\ status = "running"
    /\ queue # <<>>
    /\ steps < budget
    /\ steps' = steps + 1
    /\ Watched(<<Head(queue)>>)
    /\ last' = NoCall("redeliver")
    /\ UNCHANGED <<status, budget, externals, disk, vars4, vars2>>

NextRedeliver ==
    \/ Enter
    \/ Create
    \/ External
    \/ Redeliver
    \/ HandleNotify
    \/ SelectStart
    \/ SelectEnd
    \/ MoveUp
    \/ MoveDown

SpecRedeliver == InitOf(MaxRedeliverSteps) /\ [][NextRedeliver]_vars

(***************************************************************************)
(* The tree of files.rs when the user creates and deletes entries while    *)
(* the notifications of another process's changes wait in the channel.     *)
(***************************************************************************)
NextPair ==
    \/ Create
    \/ Delete
    \/ External
    \/ HandleNotify
    \/ MoveDown

SpecPair == InitOf(MaxPairSteps) /\ [][NextPair]_vars

(***************************************************************************)
(* The ordering policy as a function of its two entries: three directory   *)
(* entries of any file type and path, as each tree classifies them         *)
(* (files.rs: Folder for a directory, File for everything else; files2.rs: *)
(* EntryKind::from(FileType)), compared pairwise.                          *)
(***************************************************************************)
Compare ==
    /\ status = "running"
    /\ \E a, b \in DOMAIN entries2 :
          last' = [NoCall("cmp") EXCEPT !.arg = a,
                                        !.ev = cmp_entries(entries, a, b),
                                        !.res = cmp(entries2, a, b)]
    /\ UNCHANGED <<disk, status, steps, budget, queue, externals, vars4, vars2>>

InitOrder ==
    /\ budget = 0 /\ steps = 0 /\ externals = 0 /\ queue = <<>>
    /\ status = "running"
    /\ last = NoCall("new")
    /\ disk = [p \in DiskPaths |-> IF p = RootPath THEN "Folder" ELSE "Absent"]
    /\ entries2 \in [0..2 -> {Entry(p, k, NoId, FALSE) :
                                 p \in {<<"/", "a">>, <<"/", "b">>, <<"/", "a", "a">>},
                                 k \in {"File", "Folder", "Symlink", "Unknown"}}]
    /\ entries = [i \in 0..2 |->
                    Entry(entries2[i].path,
                          IF entries2[i].kind = "Folder" THEN "Folder" ELSE "File",
                          NoId, FALSE)]
    /\ selected = 0 /\ visible = <<>> /\ view_offset = 0 /\ temp = <<>>
    /\ next_id = 3 /\ notify_modify = FALSE /\ modify_from = NoPath
    /\ selected2 = 0 /\ visible2 = <<>> /\ temp2 = <<>> /\ next_id2 = 3

SpecOrder == InitOrder /\ [][Compare]_vars

(***************************************************************************)
(* Properties of the files.rs tree.                                        *)
(***************************************************************************)
\* the entries with their marked flags dropped
Unmarked(es) == [k \in DOMAIN es |-> [es[k] EXCEPT !.marked = FALSE]]

\* C1: in every state a call of the tree leaves behind, calls that return an
\* error or return early included, visible is the pre-order traversal from
\* root through the expanded folders (collect_visible from root), and the
\* depth of each element is the number of its ancestors.
C1_VisibleIsTraversal ==
    status = "running" =>
        /\ visible = visible_entries(entries)
        /\ \A i \in 1..Len(visible) :
              visible[i].depth = depth(entries, visible[i].id)

\* C3: after a delete or a batch_delete that returns, selected is a key of
\* the entry store, wherever the selection was.
C3_SelectedLive ==
    (status = "running" /\ last.op \in {"delete", "batch_delete"})
        => selected \in DOMAIN entries

C6_RootIsProtected ==
    [][(/\ status = "running"
        /\ \/ last'.op = "delete" /\ selected = 0
           \/ last'.op = "batch_move" /\ \E i \in 1..Len(temp) : temp[i] = 0)
       => (/\ last'.res = "InvalidInput"
           /\ UNCHANGED <<entries, visible, selected, temp>>)]_vars

\* C10: batch_move with one marked id whose parent is the destination (the
\* selected folder) leaves the filesystem, the entries (flags and children)
\* and visible as they were, calls rename not once, and returns Ok, unless
\* the operating system fails the call.
C10_MoveToOwnParentIsNoOp ==
    [][(/\ status = "running"
        /\ last'.op = "batch_move"
        /\ last'.res # "IoError"
        /\ Len(temp) = 1
        /\ temp[1] \in DOMAIN entries
        /\ selected \in DOMAIN entries
        /\ entries[temp[1]].parent = selected
        /\ Exists(disk, entries[temp[1]].path))
       => (/\ last'.res = "Ok"
           /\ last'.renames = 0
           /\ disk' = disk
           /\ Unmarked(entries') = Unmarked(entries)
           /\ visible' = visible)]_vars


\* C7: batch_delete over marked entries (live, not root) of which one is
\* already gone from the disk does not abort: unless the operating system
\* refuses a removal for another reason than NotFound, the call returns Ok
\* and every other marked entry is gone from the disk and from the entries.
C7_BatchDeleteToleratesNotFound ==
    [][(/\ status = "running"
        /\ last'.op = "batch_delete"
        /\ last'.res # "IoError"
        /\ \A i \in 1..Len(temp) : temp[i] \in DOMAIN entries \ {0}
        /\ \E i \in 1..Len(temp) : ~Exists(disk, entries[temp[i]].path))
       => (/\ status' = "running"
           /\ last'.res = "Ok"
           /\ \A i \in 1..Len(temp) :
                 Exists(disk, entries[temp[i]].path)
                    => /\ ~Exists(disk', entries[temp[i]].path)
                       /\ temp[i] \notin DOMAIN entries')]_vars

\* the paths a step has created
Made == {p \in DiskPaths : disk[p] = "Absent" /\ disk'[p] # "Absent"}

\* create succeeds while the selected entry is a folder under root that is
\* visited, expanded and empty, in the tree and on the disk
CreateInEmptyFolder ==
    /\ status = "running"
    /\ last'.op = "create" /\ last'.res = "Ok"
    /\ selected \in DOMAIN entries
    /\ entries[selected].kind = "Folder"
    /\ entries[selected].parent = 0
    /\ entries[selected].visited /\ entries[selected].expanded
    /\ entries[selected].children = <<>>
    /\ ReadDir(disk, entries[selected].path) = {}
    /\ Position(visible, selected) > 0

\* after CreateInEmptyFolder: the new path is on the disk, the folder has one
\* child, the entry of that path, and visible holds the folder at depth d
\* with the child right behind it at depth d + 1
CreatedAtDepth(d) ==
    /\ status' = "running"
    /\ selected \in DOMAIN entries'
    /\ Len(entries'[selected].children) = 1
    /\ LET foo == entries'[selected].children[1]
           pos == Position(visible', selected)
       IN  /\ foo \in DOMAIN entries'
           /\ entries'[foo].parent = selected
           /\ Made = {entries'[foo].path}
           /\ ParentPath(entries'[foo].path) = entries[selected].path
           /\ pos > 0 /\ pos < Len(visible')
           /\ visible'[pos] = VisibleEntry(selected, d)
           /\ visible'[pos + 1] = VisibleEntry(foo, d + 1)

\* the same for the tree of files2.rs: its create succeeds while the
\* selected entry is a folder of the directory (an entry without parent)
\* that is visited, expanded and empty
CreateInEmptyFolder2 ==
    /\ status = "running"
    /\ last'.op = "files2.create" /\ last'.res = "Ok"
    /\ selected2 \in DOMAIN entries2
    /\ entries2[selected2].kind = "Folder"
    /\ entries2[selected2].parent = NoId
    /\ entries2[selected2].visited /\ entries2[selected2].expanded
    /\ entries2[selected2].children = <<>>
    /\ ReadDir(disk, entries2[selected2].path) = {}
    /\ Position(visible2, selected2) > 0

\* after CreateInEmptyFolder2, as CreatedAtDepth (the entry holds the name
\* it was created with, the path made on the disk is that name in the
\* folder)
CreatedAtDepth2(d) ==
    /\ status' = "running"
    /\ selected2 \in DOMAIN entries2'
    /\ Len(entries2'[selected2].children) = 1
    /\ LET foo == entries2'[selected2].children[1]
           pos == Position(visible2', selected2)
       IN  /\ foo \in DOMAIN entries2'
           /\ entries2'[foo].parent = selected2
           /\ Made = {entries2[selected2].path \o entries2'[foo].path}
           /\ pos > 0 /\ pos < Len(visible2')
           /\ visible2'[pos] = VisibleEntry(selected2, d)
           /\ visible2'[pos + 1] = VisibleEntry(foo, d + 1)

\* C8 as stated: create("foo") with the visited, expanded, empty folder temp
\* of root selected puts temp/foo on the disk, makes foo the one child of
\* temp, and visible holds (temp, 0) with (foo, 1) right behind it; in the
\* tree of files.rs and in the tree of files2.rs.
C8_CreateListsChildAtDepthOne ==
    [][/\ CreateInEmptyFolder => CreatedAtDepth(0)
       /\ CreateInEmptyFolder2 => CreatedAtDepth2(0)]_vars

\* C8 amended: the same, with visible holding (temp, d) and (foo, d + 1)
\* right behind it, d the number of ancestors of temp: 1 in the tree of
\* files.rs, whose root is the element of depth 0, and 0 in the tree of
\* files2.rs, which holds no entry for the directory itself.
C8_CreateListsChildBelowFolder ==
    [][/\ CreateInEmptyFolder => CreatedAtDepth(1)
       /\ CreateInEmptyFolder2 => CreatedAtDepth2(0)]_vars

\* C8, its case: a create of the files.rs tree has returned Ok, its
\* reset_visible having read the directory of the folder once; the selected
\* folder of root is expanded and holds the one entry its directory holds;
\* and in the tree of files2.rs a folder of the directory is listed with the
\* one child a create gave it right behind it
C8_Witness ==
    /\ status = "running"
    /\ \E f \in DOMAIN entries2 :
          /\ entries2[f].kind = "Folder" /\ entries2[f].parent = NoId
          /\ entries2[f].expanded /\ Len(entries2[f].children) = 1
          /\ entries2[f].children[1] \in DOMAIN entries2
          /\ Len(entries2[entries2[f].children[1]].path) = 1
          /\ Cardinality(ReadDir(disk, entries2[f].path)) = 1
          /\ Position(visible2, entries2[f].children[1])
                = Position(visible2, f) + 1
    /\ last.op = "create" /\ last.res = "Ok" /\ last.reads = 1
    /\ selected \in DOMAIN entries
    /\ entries[selected].kind = "Folder" /\ entries[selected].parent = 0
    /\ entries[selected].expanded
    /\ Len(entries[selected].children) = 1
    /\ Cardinality(ReadDir(disk, entries[selected].path)) = 1
    /\ Position(visible, entries[selected].children[1])
          = Position(visible, selected) + 1

\* C9: the second half of a rename from a/old to b/new, with the old entry,
\* its folder a and another, expanded and listed folder b known to the tree, leaves
\* the entry of a/old with path b/new and parent b, listed in visible among
\* the children of b and no longer a child of a.
C9_RenamedEntryIsListedUnderNewParent ==
    [][(/\ status = "running"
        /\ last'.op = "handle_notify" /\ last'.ev = "Rename"
        /\ notify_modify /\ modify_from # NoPath
        /\ queue # <<>>
        /\ Found(entries, modify_from) # {NoId}
        /\ Found(entries, ParentPath(Head(queue).path)) # {NoId}
        /\ \A old \in Found(entries, modify_from) :
              /\ old # 0
              /\ entries[old].parent \in DOMAIN entries
              /\ entries[old].parent
                    \notin Found(entries, ParentPath(Head(queue).path))
        /\ \A b \in Found(entries, ParentPath(Head(queue).path)) :
              /\ entries[b].kind = "Folder" /\ entries[b].expanded
              /\ Position(visible, b) > 0)
       => (/\ status' = "running"
           /\ \A old \in Found(entries, modify_from) :
                 LET a == entries[old].parent
                     b == entries'[old].parent
                 IN  /\ old \in DOMAIN entries'
                     /\ entries'[old].path = Head(queue).path
                     /\ b \in Found(entries, ParentPath(Head(queue).path))
                     /\ Position(visible', old) > Position(visible', b)
                     /\ Position(visible', b) > 0
                     /\ \E i \in 1..Len(entries'[b].children) :
                           entries'[b].children[i] = old
                     /\ \A i \in 1..Len(entries'[a].children) :
                           entries'[a].children[i] # old)]_vars

\* the children of every folder of the files.rs tree are in order
ChildrenSorted ==
    \A id \in DOMAIN entries :
        \A i \in 1..(Len(entries[id].children) - 1) :
            LET a == entries[id].children[i]
                b == entries[id].children[i + 1]
            IN  /\ a \in DOMAIN entries /\ b \in DOMAIN entries
                /\ LeqEntries(entries, a, b)



(***************************************************************************)
(* Properties of the files2.rs tree.                                       *)
(***************************************************************************)

\* every list of children of the files2.rs tree is sorted by cmp
ChildrenSorted2 ==
    \A id \in DOMAIN entries2 :
        LET kids == LiveChildren(entries2, id)
        IN  \A k \in 1..(Len(kids) - 1) :
                cmp(entries2, kids[k], kids[k + 1]) # "Greater"

\* C2: for every folder id listed in visible, the incremental update
\* visit(id) leaves visible identical to the list that the full rebuild
\* visit_root produces from the same entries, after any sequence of enter,
\* create, delete and rename, also when id is not the selected entry
C2_VisitEqualsVisitRoot ==
    status = "running" =>
        \A id \in DOMAIN entries2 :
            (/\ entries2[id].kind = "Folder"
             /\ Position(visible2, id) > 0
             /\ TopLevelIsOrdered(entries2))
            => LET t == visit(Tree2, id)
               IN  /\ t.flag = "ok"
                   /\ t.visible = visit_root(entries2)

\* C4: after any mutation (add, enter, create, delete, rename, batch_move,
\* reconciled events) the children of every folder are sorted: each adjacent
\* pair (a, b) has a <= b, folders before files and then by path; in the
\* tree of files.rs and in the tree of files2.rs
C4_ChildrenAreSorted ==
    status = "running" => ChildrenSorted /\ ChildrenSorted2


\* C11: handle_notify returns Ok for every event and never panics: events
\* with an unrecognised create or remove kind, events for paths the tree does
\* not know and rename halves without a partner included.
C11_NotifyAlwaysSucceeds ==
    [][(status = "running" /\ last'.op = "handle_notify")
       => (status' = "running" /\ last'.res = "Ok")]_vars


\* the entries of es below id: those whose chain of parents reaches id
RECURSIVE Under(_, _, _, _)
Under(es, k, id, fuel) ==
    /\ k \in DOMAIN es
    /\ es[k].parent # NoId
    /\ \/ es[k].parent = id
       \/ fuel > 0 /\ Under(es, es[k].parent, id, fuel - 1)

\* a delete(id) of the files.rs tree that returns Ok leaves neither id, nor
\* id in the children of its parent, nor an entry below id
DeleteRemovesSubtree ==
    (/\ status = "running"
     /\ last'.op = "delete" /\ last'.res = "Ok"
     /\ last'.arg \in DOMAIN entries /\ last'.arg # 0)
    => LET id == last'.arg
       IN  /\ status' = "running"
           /\ id \notin DOMAIN entries'
           /\ \A p \in DOMAIN entries' :
                 \A k \in 1..Len(entries'[p].children) :
                     entries'[p].children[k] # id
           /\ \A k \in DOMAIN entries :
                 Under(entries, k, id, MaxIds) => k \notin DOMAIN entries'

\* the same for delete(id) of the files2.rs tree
DeleteRemovesSubtree2 ==
    (/\ status = "running"
     /\ last'.op = "files2.delete" /\ last'.res = "Ok"
     /\ last'.arg \in DOMAIN entries2)
    => LET id == last'.arg
       IN  /\ status' = "running"
           /\ id \notin DOMAIN entries2'
           /\ \A p \in DOMAIN entries2' :
                 \A k \in 1..Len(entries2'[p].children) :
                     entries2'[p].children[k] # id
           /\ \A k \in DOMAIN entries2 :
                 Under(entries2, k, id, MaxIds2) => k \notin DOMAIN entries2'

\* C12: after delete(id) succeeds on an entry that is not root, id is no
\* longer in the entry store nor in the children of its former parent, and
\* no descendant of id remains in the entry store; in the tree of files.rs
\* and in the tree of files2.rs.
C12_DeleteRemovesSubtree ==
    [][DeleteRemovesSubtree /\ DeleteRemovesSubtree2]_vars


\* C13: after any sequence of mark, clear_marked, batch_delete and batch_move
\* the list of marked ids (temp) holds exactly the entries whose marked flag
\* is set, each of them once: a second mark of an entry takes it off the
\* list.
C13_TempIsTheMarkedEntries ==
    status = "running" =>
        /\ {temp[i] : i \in 1..Len(temp)}
              = {k \in DOMAIN entries : entries[k].marked}
        /\ \A i, j \in 1..Len(temp) : i # j => temp[i] # temp[j]


\* C14: in every state, the freshly constructed tree included, an entry that
\* is expanded is visited.
C14_ExpandedIsVisited ==
    status = "running" =>
        \A k \in DOMAIN entries : entries[k].expanded => entries[k].visited

\* C15: in every state an entry that is not a folder has no children and is
\* not expanded, whatever entry was selected when create, enter or a refresh
\* of the reconciler ran.
C15_FilesHaveNoChildren ==
    status = "running" =>
        \A k \in DOMAIN entries :
            entries[k].kind # "Folder"
                => entries[k].children = <<>> /\ ~entries[k].expanded


\* C16: in every state each id held in visible is a key of the entry store
\* (the view indexes the store by every id of visible), also after a
\* batch_delete that returns early or fails partway.
C16_VisibleIdsAreLive ==
    status = "running" =>
        \A i \in 1..Len(visible) : visible[i].id \in DOMAIN entries

\* C17: in every state each id held in the marked list (temp) is a key of the
\* entry store, so that clear_marked, batch_delete and batch_move never
\* index a removed id; also after a marked entry was removed by delete, by a
\* Remove event, or by a batch_delete that aborted or returned early.
C17_MarkedIdsAreLive ==
    status = "running" =>
        \A i \in 1..Len(temp) : temp[i] \in DOMAIN entries

\* enter of the files2.rs tree expands the selected folder, which was never
\* read before
ExpandsUnvisited2 ==
    /\ status = "running"
    /\ status' = "running"
    /\ last'.op = "files2.enter"
    /\ selected2 \in DOMAIN entries2
    /\ entries2[selected2].kind = "Folder"
    /\ ~entries2[selected2].visited
    /\ ~entries2[selected2].expanded

\* C18: expanding an unvisited folder whose directory holds n entries adds
\* exactly n entries to the entry store and n elements to visible;
\* collapsing it again restores the previous visible sequence and leaves the
\* entry store as it was (but for the expanded flag of the folder).
C18_ExpandAddsAndCollapseRestores ==
    [][ExpandsUnvisited2 =>
          LET n == Cardinality(ReadDir(disk, Abs(entries2[selected2].path)))
              back == enter2(Tree2', <<>>)
          IN  /\ Cardinality(DOMAIN entries2') = Cardinality(DOMAIN entries2) + n
              /\ Len(visible2') = Len(visible2) + n
              /\ back.flag = "ok"
              /\ back.visible = visible2
              /\ back.entries = [entries2' EXCEPT ![selected2].expanded = FALSE]]_vars

\* the step is a successful rename(id, None) of the files2.rs tree on an
\* entry listed in the children of an expanded folder
RenamedToCurrentDir(id) ==
    /\ status = "running"
    /\ status' = "running"
    /\ last'.op = "files2.rename"
    /\ last'.arg = id
    /\ last'.res = "Ok"
    /\ id \in DOMAIN entries2
    /\ entries2[id].parent \in DOMAIN entries2
    /\ entries2[entries2[id].parent].expanded
    /\ \E i \in 1..Len(entries2[entries2[id].parent].children) :
          entries2[entries2[id].parent].children[i] = id
    /\ LET t == rename2(Tree2, id, NoId)
       IN  /\ t.flag = "ok"
           /\ entries2' = t.entries
           /\ visible2' = t.visible
           /\ disk' = t.disk

\* what rename(id, None) leaves: the entry at the top level, under the
\* current directory, out of the children of its old parent p, and listed at
\* depth 0; nothing is listed below an emptied p
MovedToCurrentDir(id, p) ==
    /\ id \in DOMAIN entries2'
    /\ entries2'[id].parent = NoId
    /\ entries2'[id].path = Join(RootPath, FileName(entries2[id].path))
    /\ p \in DOMAIN entries2'
    /\ \A i \in 1..Len(entries2'[p].children) : entries2'[p].children[i] # id
    /\ \E i \in 1..Len(visible2') : visible2'[i].id = id
    /\ \A i \in 1..Len(visible2') : visible2'[i].id = id => visible2'[i].depth = 0
    /\ entries2'[p].children = <<>> =>
          \A i \in 1..(Len(visible2') - 1) :
              visible2'[i].id = p => visible2'[i + 1].depth <= visible2'[i].depth

\* C19: rename(id, None) on an entry inside an expanded folder moves it to
\* the current directory of the tree: parent None, path
\* current-directory/filename, absent from the old parent's children, listed
\* in visible at depth 0, and no deeper element left below an emptied parent.
C19_RenameToNoneMovesToCurrentDir ==
    [][\A id \in DOMAIN entries2 :
          RenamedToCurrentDir(id) => MovedToCurrentDir(id, entries2[id].parent)]_vars

\* a file was moved on disk out of its expanded folder, which is now empty on
\* disk and in the tree
C19_Witness ==
    /\ status = "running"
    /\ last.op = "files2.rename"
    /\ last.res = "Ok"
    /\ last.arg \in DOMAIN entries2
    /\ entries2[last.arg].parent = NoId
    /\ entries2[last.arg].kind = "File"
    /\ disk[entries2[last.arg].path] = "File"
    /\ \E p \in DOMAIN entries2 :
          /\ entries2[p].expanded
          /\ entries2[p].visited
          /\ entries2[p].children = <<>>
          /\ ReadDir(disk, Abs(entries2[p].path)) = {}
          /\ \E i \in 1..Len(visible2) : visible2[i].id = p
    /\ \E i \in 1..Len(visible2) : visible2[i] = VisibleEntry(last.arg, 0)

\* the step is a move_up or a move_down with the selected entry at the
\* position pos (from 1) of visible
Moves(pos) ==
    /\ status = "running"
    /\ status' = "running"
    /\ last'.op \in {"move_up", "move_down"}
    /\ pos = Position(visible, selected)
    /\ pos > 0

\* the position move_up or move_down is to select: the adjacent one, the
\* same one at either end of the list
Adjacent(pos) ==
    IF last'.op = "move_up"
    THEN IF pos > 1 THEN pos - 1 ELSE pos
    ELSE IF pos < Len(visible) THEN pos + 1 ELSE pos

\* the row (from 0) lies inside the rendered window
InWindow(row) == view_offset <= row /\ row < view_offset + MAX_VISIBLE

\* C20: move_up and move_down change selected to the adjacent entry of
\* visible (one position, none at either end of the list), and they change
\* view_offset only when the new selection would otherwise lie outside the
\* rendered window [view_offset, view_offset + MAX_VISIBLE).
C20_MoveScrollsOnlyOffWindow ==
    [][\A pos \in 1..Len(visible) :
          Moves(pos) =>
              /\ selected' = visible[Adjacent(pos)].id
              /\ visible' = visible
              /\ view_offset' # view_offset => ~InWindow(Adjacent(pos) - 1)]_vars

\* C21: per entry the lazy-load state machine only moves Unloaded ->
\* Loaded(collapsed) <-> Loaded(expanded): once the visited flag of an entry
\* is true, it is never false again after any later operation or reconciled
\* event, as long as the entry lives.
C21_VisitedNeverResets ==
    [][status' = "running" =>
          \A k \in DOMAIN entries \cap DOMAIN entries' :
              entries[k].visited => entries'[k].visited]_vars

\* the step invalidates the folder k, so that its next expansion reads the
\* directory again: batch_move does it to the old parent of every moved entry
\* and to the new parent, a Create event to a parent that is collapsed
Invalidates(k) ==
    \/ /\ last'.op = "batch_move"
       /\ \/ k = selected
          \/ \E i \in 1..Len(temp) :
                temp[i] \in DOMAIN entries /\ entries[temp[i]].parent = k
    \/ /\ last'.op = "handle_notify"
       /\ last'.ev = "Create"
       /\ ~entries[k].expanded

\* C21 (amended): once the visited flag of an entry is true, it stays true
\* under every later operation and reconciled event, but for the
\* invalidations of batch_move (old and new parents) and of a Create event
\* for a collapsed folder.
C21_VisitedResetsOnlyByInvalidation ==
    [][status' = "running" =>
          \A k \in DOMAIN entries \cap DOMAIN entries' :
              (entries[k].visited /\ ~entries'[k].visited) => Invalidates(k)]_vars

\* batch_move has moved the file a/a out of the folder a, which had been
\* entered, into the selected folder b: both folders are unloaded again
C21_Witness ==
    /\ status = "running"
    /\ externals = 0
    /\ last.op = "batch_move" /\ last.res = "Ok" /\ last.renames = 1
    /\ selected \in DOMAIN entries \ {0}
    /\ entries[selected].path = <<"/", "b">>
    /\ ~entries[selected].visited
    /\ \E m \in DOMAIN entries :
          /\ entries[m].parent = selected
          /\ entries[m].path = <<"/", "b", "a">>
          /\ disk[<<"/", "b", "a">>] = "File"
    /\ \E k \in DOMAIN entries \ {0, selected} :
          /\ entries[k].path = <<"/", "a">>
          /\ entries[k].parent = 0
          /\ ~entries[k].visited /\ ~entries[k].expanded
          /\ entries[k].children = <<>>
          /\ ReadDir(disk, entries[k].path) = {}

\* the parent create resolves: the selected entry when it is a folder, the
\* parent of the selected file otherwise
CreateTarget ==
    IF entries[selected].kind = "Folder" THEN selected ELSE entries[selected].parent

\* C22: create resolves its target parent as the selected entry when that is
\* a folder and as the parent of the selected file otherwise, and every entry
\* a successful create adds to the store is a child of that parent and of no
\* other entry, never of the selected file.
C22_CreateAttachesToResolvedParent ==
    [][(status = "running" /\ status' = "running" /\ last'.op = "create"
           /\ last'.res = "Ok" /\ selected \in DOMAIN entries)
          => \A n \in DOMAIN entries' \ DOMAIN entries :
                /\ entries'[n].parent = CreateTarget
                /\ \A k \in DOMAIN entries' :
                      (\E i \in 1..Len(entries'[k].children) :
                          entries'[k].children[i] = n) => k = CreateTarget]_vars

\* the paths the step has made on disk
MadeOnDisk == {p \in DiskPaths : disk[p] = "Absent" /\ disk'[p] # "Absent"}

\* the entry n is listed in visible directly under the entry k: after k, one
\* level deeper, with nothing but deeper elements between them
ListedDirectlyUnder(vis, n, k) ==
    \E i, j \in 1..Len(vis) :
        /\ i < j
        /\ vis[i].id = k
        /\ vis[j].id = n
        /\ vis[j].depth = vis[i].depth + 1
        /\ \A m \in (i + 1)..(j - 1) : vis[m].depth > vis[i].depth

\* C23: after a successful create the new child is listed in visible
\* directly under its parent when the call returns, also when the target
\* folder was collapsed or not yet visited before the call.
C23_CreatedChildIsVisible ==
    [][(status = "running" /\ status' = "running" /\ last'.op = "create"
           /\ last'.res = "Ok" /\ selected \in DOMAIN entries)
          => \A p \in MadeOnDisk :
                \E n \in DOMAIN entries' :
                    /\ Abs(entries'[n].path) = p
                    /\ ListedDirectlyUnder(visible', n, CreateTarget)]_vars

\* the step is create(kind, name) with the name taken in the directory of
\* the target parent
CreatesExisting(kind, name) ==
    /\ status = "running"
    /\ last'.op = "create"
    /\ selected \in DOMAIN entries
    /\ CreateTarget \in DOMAIN entries
    /\ Exists(disk, Join(entries[CreateTarget].path, name))
    /\ LET t == create(Tree, kind, name, FALSE)
       IN  /\ t.flag \in {"ok", "panic"}
           /\ last' = Call("create", NoId, "", t)
           /\ disk' = t.disk
           /\ t.flag = "ok" => /\ entries' = t.entries
                               /\ visible' = t.visible
                               /\ selected' = t.selected

\* C24: create fails with the error of the OS, and leaves the tree
\* unchanged, when the target name already exists in the parent directory,
\* for the creation of a file and of a folder.
C24_CreateOfExistingNameFails ==
    [][\A kind \in {"File", "Folder"}, name \in Names :
          CreatesExisting(kind, name) =>
              /\ status' = "running"
              /\ last'.res # "Ok"
              /\ disk' = disk
              /\ UNCHANGED vars4]_vars

\* the step is a successful delete(id), with the selection on id or below
\* it, and id listed in visible
DeletesSelection(id) ==
    /\ status = "running"
    /\ status' = "running"
    /\ last'.op = "delete"
    /\ last'.arg = id
    /\ last'.res = "Ok"
    /\ id \in DOMAIN entries
    /\ selected = id \/ Under(entries, selected, id, MaxIds)
    /\ Position(visible, id) > 1

\* C25: after delete(id) succeeds with selected equal to id or inside the
\* removed subtree, selected is the entry that came immediately before id in
\* visible, as visible was before the delete.
C25_DeleteSelectsPrecedingEntry ==
    [][\A id \in DOMAIN entries :
          DeletesSelection(id) =>
              selected' = visible[Position(visible, id) - 1].id]_vars

\* the step is rename(id, new_parent) of the files2.rs tree with a
\* destination path equal to the path the entry has
RenamesToOwnPath(id, new_parent) ==
    /\ status = "running"
    /\ id \in DOMAIN entries2
    /\ Join(NewParentPath(entries2, new_parent), FileName(entries2[id].path))
          = entries2[id].path
    /\ last' = Call("files2.rename", id, "", rename2(Tree2, id, new_parent))

\* C26: a rename or move of an entry whose computed destination path equals
\* its current path is a no-op: no rename on the filesystem, the call
\* returns success and does not crash, and the tree is unchanged.
C26_RenameToOwnPathIsNoOp ==
    [][\A id \in DOMAIN entries2, new_parent \in DOMAIN entries2 \cup {NoId} :
          RenamesToOwnPath(id, new_parent) =>
              /\ status' = "running"
              /\ last'.res = "Ok"
              /\ disk' = disk
              /\ UNCHANGED vars2]_vars

\* the step is batch_move with a file selected, no filesystem fault, and
\* the entries of temp alive, below root and on disk
MovesOntoFile ==
    /\ status = "running"
    /\ selected \in DOMAIN entries
    /\ entries[selected].kind = "File"
    /\ entries[selected].parent \in DOMAIN entries
    /\ temp # <<>>
    /\ \A i \in 1..Len(temp) :
          /\ temp[i] \in DOMAIN entries \ {0, selected}
          /\ Exists(disk, entries[temp[i]].path)
    /\ last' = Call("batch_move", NoId, "", batch_move(Tree, 0))

\* C27: when the target of a move (the selected entry of batch_move) is a
\* file, the destination directory of every moved entry is the parent folder
\* of that file, not the file: the entries are on disk in that folder
\* afterwards.
C27_MoveOntoFileGoesToItsParent ==
    [][MovesOntoFile =>
          /\ status' = "running"
          /\ last'.res = "Ok"
          /\ \A i \in 1..Len(temp) :
                disk'[Join(entries[entries[selected].parent].path,
                           FileName(entries[temp[i]].path))]
                   = entries[temp[i]].kind]_vars

\* the folder k is unloaded and collapsed, with no children
Invalidated(es, k) ==
    /\ k \in DOMAIN es
    /\ ~es[k].visited
    /\ ~es[k].expanded
    /\ es[k].children = <<>>

\* C28: after a batch_move that moves at least one entry and returns
\* success, the old parent of every moved entry and the new parent have
\* visited == false, expanded == false and no children, so that their next
\* expansion reads the directory again.
C28_BatchMoveInvalidatesParents ==
    [][(status = "running" /\ status' = "running" /\ last'.op = "batch_move"
           /\ last'.res = "Ok" /\ last'.renames >= 1 /\ selected \in DOMAIN entries)
          => /\ Invalidated(entries', selected)
             /\ \A i \in 1..Len(temp) :
                   (temp[i] \in DOMAIN entries /\ temp[i] # 0)
                      => Invalidated(entries', entries[temp[i]].parent)]_vars

\* batch_move has moved the top-level file b into the folder a: root, the
\* old parent, and a are unloaded and collapsed, and only root is listed
C28_Witness ==
    /\ status = "running"
    /\ last.op = "batch_move" /\ last.res = "Ok" /\ last.renames = 1
    /\ selected \in DOMAIN entries \ {0}
    /\ entries[selected].path = <<"/", "a">>
    /\ Invalidated(entries, selected)
    /\ Invalidated(entries, 0)
    /\ visible = <<VisibleEntry(0, 0)>>
    /\ temp = <<>>
    /\ disk[<<"/", "a", "b">>] = "File" /\ disk[<<"/", "b">>] = "Absent"
    /\ \E m \in DOMAIN entries :
          entries[m].parent = selected /\ entries[m].path = <<"/", "a", "b">>

\* C29: a Remove event whose path is the path of the tree's root is
\* forbidden and fatal for the session: handle_notify aborts on it, and
\* never accepts or ignores it silently.
C29_RemoveOfRootIsFatal ==
    [][(status = "running" /\ last'.op = "handle_notify" /\ queue # <<>>
           /\ Head(queue).kind = "Remove" /\ Head(queue).path = RootPath)
          => status' = "panicked"]_vars

\* the step hands the notification ev, as the backend reported the head of
\* the channel, to handle_notify, and the find of the parent yields pid
CreateHandled(ev, pid) ==
    /\ status = "running"
    /\ queue # <<>>
    /\ ev \in Reported(Head(queue))
    /\ ev.kind = "Create"
    /\ pid \in Found(entries, ParentPath(ev.path)) \ {NoId}
    /\ LET t == handle_notify(Tree, ev, pid, NoId)
       IN  /\ last' = Call("handle_notify", NoId, "Create", t)
           /\ t.flag = "ok" => entries' = t.entries /\ visible' = t.visible

\* the positions of the children of pid that have path p
ChildrenAt(es, pid, p) ==
    {i \in 1..Len(es[pid].children) :
        /\ es[pid].children[i] \in DOMAIN es
        /\ es[es[pid].children[i]].path = p}

\* the positions of visible that show an entry with path p directly under
\* pid
VisibleAt(es, vis, pid, p) ==
    {j \in 1..Len(vis) :
        /\ vis[j].id \in DOMAIN es
        /\ es[vis[j].id].path = p
        /\ ListedDirectlyUnder(vis, vis[j].id, pid)}

\* pid has one child with path p, shown once directly under pid
OneChildShown(es, vis, pid, p) ==
    /\ pid \in DOMAIN es
    /\ Cardinality(ChildrenAt(es, pid, p)) = 1
    /\ Cardinality(VisibleAt(es, vis, pid, p)) = 1

\* the call returned and left one child with path p under pid, shown once;
\* where a sorted insertion met several equal children the position the
\* search returns is unspecified, and the step decides nothing
YieldsOneChild(pid, p) ==
    \/ status' = "unspec"
    \/ /\ status' = "running"
       /\ OneChildShown(entries', visible', pid, p)

\* the events on the head of the channel, as the backend may report it
HeadEvents == IF queue = <<>> THEN {} ELSE Reported(Head(queue))

RenameHalfHandled ==
    /\ status = "running"
    /\ queue # <<>>
    /\ Head(queue).kind = "Rename"
    /\ last'.op = "handle_notify"
    /\ last'.ev = "Rename"

\* the flag is true exactly when a path is buffered
FlagIffBuffered(flag, from) == flag <=> from # NoPath

\* C31: the rename pairing is a two-state machine: a first half only stores
\* its path and sets the flag, leaving the tree untouched; a second half
\* leaves the slot empty and the flag false; and in every state the flag is
\* true exactly when a path is buffered
C31_RenamePairingIsTwoState ==
    /\ [](status = "running" => FlagIffBuffered(notify_modify, modify_from))
    /\ [][RenameHalfHandled =>
            IF ~notify_modify
            THEN /\ status' = "running"
                 /\ notify_modify'
                 /\ modify_from' = Head(queue).path
                 /\ UNCHANGED <<entries, selected, visible, view_offset, temp,
                                next_id, disk>>
            ELSE /\ status' = "running"
                 /\ ~notify_modify'
                 /\ modify_from' = NoPath]_vars
\* the step hands a second rename half to handle_notify, and no entry has
\* the path of the directory it names
SecondHalfOutsideTree ==
    /\ RenameHalfHandled
    /\ notify_modify
    /\ Found(entries, ParentPath(Head(queue).path)) = {NoId}

TotalOrderOn(es, C(_, _, _)) ==
    /\ \A a, b \in DOMAIN es :
          /\ C(es, a, b) = "Less" <=> C(es, b, a) = "Greater"
          /\ C(es, a, b) = "Equal" <=> C(es, b, a) = "Equal"
          /\ C(es, a, b) =
                IF es[a].kind = "Folder" /\ es[b].kind = "File" THEN "Less"
                ELSE IF es[a].kind = "File" /\ es[b].kind = "Folder" THEN "Greater"
                ELSE PathCmp(es[a].path, es[b].path)
    /\ \A a, b, c \in DOMAIN es :
          /\ (C(es, a, b) = "Less" /\ C(es, b, c) = "Less") => C(es, a, c) = "Less"
          /\ (C(es, a, b) = "Equal" /\ C(es, b, c) = "Equal") => C(es, a, c) = "Equal"
          /\ (C(es, a, b) # "Greater" /\ C(es, b, c) # "Greater")
                => C(es, a, c) # "Greater"

\* C33: the ordering policy is a total order on entries of every kind and
\* path: antisymmetric, transitive (also in its Equal outcome), Folder
\* before File when the kinds differ and path order otherwise
C33_OrderingIsTotal ==
    /\ TotalOrderOn(entries, cmp_entries)
    /\ TotalOrderOn(entries2, cmp)
\* C34: view_offset never exceeds the length of visible, so that the window
\* visible[view_offset .. min(view_offset + MAX_VISIBLE, len)] is a valid
\* range
C34_ViewOffsetWithinVisible ==
    status = "running" => view_offset <= Len(visible)
\* C35: whenever selected is an element of visible its index lies inside
\* the rendered window [view_offset, view_offset + MAX_VISIBLE)
C35_SelectedInsideWindow ==
    (status = "running" /\ Position(visible, selected) > 0)
        => /\ view_offset <= Position(visible, selected) - 1
           /\ Position(visible, selected) - 1 < view_offset + MAX_VISIBLE
\* C36: no folder's children list holds two entries with the same path
C36_NoDuplicateChildren ==
    status = "running" =>
        \A k \in DOMAIN entries :
            \A i, j \in 1..Len(entries[k].children) :
                (/\ i < j
                 /\ entries[k].children[i] \in DOMAIN entries
                 /\ entries[k].children[j] \in DOMAIN entries)
                    => entries[entries[k].children[i]].path
                          # entries[entries[k].children[j]].path
\* C37: every entry of the store other than the root is listed exactly once
\* in the children of the entry its parent field names
C37_NoOrphanedEntries ==
    status = "running" =>
        \A k \in DOMAIN entries :
            k # 0 =>
                /\ entries[k].parent \in DOMAIN entries
                /\ Cardinality({i \in 1..Len(entries[entries[k].parent].children) :
                                   entries[entries[k].parent].children[i] = k}) = 1
\* C38: selected is an element of visible
C38_SelectedIsVisible ==
    status = "running" => Position(visible, selected) > 0

\* C39: batch_delete returns a result, success or an error value, and never
\* crashes, for every marked list that mark can build: the empty list, a list
\* holding one id twice, a list holding a folder and one of its descendants.
C39_BatchDeleteNeverCrashes ==
    [][(status = "running" /\ last'.op = "batch_delete") => status' # "panicked"]_vars


\* handle_notify takes a Create, Remove or rename notification whose path is
\* neither the path of the selected entry nor above it
NotifyConcernsOthers ==
    /\ status = "running"
    /\ queue # <<>>
    /\ last'.op = "handle_notify"
    /\ last'.ev = Head(queue).kind
    /\ last'.ev \in {"Create", "Remove", "Rename"}
    /\ selected \in DOMAIN entries
    /\ ~IsPrefix(Head(queue).path, entries[selected].path)
    /\ notify_modify => ~IsPrefix(modify_from, entries[selected].path)

\* delete(id) returns Ok for an id whose subtree does not hold selected
DeleteConcernsOthers ==
    /\ status = "running"
    /\ last'.op = "delete" /\ last'.res = "Ok"
    /\ last'.arg \in DOMAIN entries
    /\ selected \notin Subtree(entries, last'.arg)

\* C40: a reconciled notification changes selected only when the selected
\* entry itself was removed by it: Create, Remove and rename notifications
\* about other entries leave selected unchanged, and so does delete(id) with
\* selected outside the removed subtree.
C40_SelectedMovesOnlyWhenRemoved ==
    [][((NotifyConcernsOthers \/ DeleteConcernsOthers) /\ status' = "running")
       => selected' = selected]_vars

=============================================================================
